---- MODULE Spec2Model ----
(***************************************************************************)
(* A model of the trivia-app backend (src/server): the relational tables   *)
(* users, user_sessions, events, rounds and round_questions, the session   *)
(* guard, and the HTTP handlers that write them.                           *)
(*                                                                         *)
(* Every handler is an operator named as in the source that computes, from *)
(* the request and the committed rows, the handler's outcome: the status   *)
(* of the response, its body where a property reads it, and the new value  *)
(* of the tables the handler writes.  The action of the handler applies    *)
(* that outcome.  A handler that commits once is one atomic action.  A     *)
(* handler whose outcome depends on what other requests commit between its *)
(* read and its commit (create_round, register) is split at those points,  *)
(* with one slot per request in flight.  The database runs at READ         *)
(* COMMITTED: every statement sees the rows committed so far, a commit is  *)
(* atomic, and the unique and check constraints are enforced at the commit *)
(* that flushes the insert.                                                *)
(***************************************************************************)
EXTENDS Integers, Sequences, FiniteSets, TLC

(***************************************************************************)
(* Bounds of the model.                                                    *)
(***************************************************************************)
MaxRounds == 3
MaxRows == 3
MaxRoundQuestions == 2
MaxTime == 8
MaxTokens == 2
MaxUsers == 2

(***************************************************************************)
(* Program constants.                                                      *)
(***************************************************************************)
\* timedelta(days=7); the clock of the model counts days
SESSION_DAYS == 7

\* None in an id or timestamp column (ids start at 1, and 0 is falsy in Python
\* as None is), and None in a text column
NULL == 0
None == "None"

Max(S) == CHOOSE x \in S : \A y \in S : y <= x

VARIABLES
    users,            \* table users: sequence of rows, id = index
    sessions,         \* table user_sessions: set of rows
    events,           \* table events: sequence of rows, id = index
    rounds,           \* table rounds: sequence of rows, id = index
    round_questions,  \* table round_questions: set of rows
    now,              \* datetime.now(timezone.utc), in days
    nextToken,        \* the next value secrets.token_urlsafe(32) returns
    cr,               \* create_round requests between their read and their commit
    reg,              \* register requests between their check and their commits
    resp,             \* the response of the last request that ended
    loggedOut,        \* history: the tokens a successful logout has presented
    trivia_questions, \* table trivia_questions: sequence of rows, id = index
    categories,       \* table categories: the set of committed rows
    category_seq,     \* the sequence behind categories.id: the last id handed out
    category_cache,   \* anki/import_misc.py: _category_cache, a dict (a
                      \* function from the lower-cased names to ids)
    imp,              \* the invocation of import_anki_data that is running
    matcher,          \* the SequenceMatcher fuzzywuzzy was installed with
    user_generated_questions  \* table user_generated_questions: sequence of
                      \* rows, id = index

\* the catalog of preset questions and the state of the bulk import; the
\* handlers of the server leave them alone
catalogVars == <<trivia_questions, categories, category_seq, category_cache,
                 imp, matcher>>

vars == <<users, sessions, events, rounds, round_questions, now, nextToken,
          cr, reg, resp, loggedOut, catalogVars,
          user_generated_questions>>

(***************************************************************************)
(* Input domains.                                                          *)
(***************************************************************************)
Usernames == {"ann", "bob"}
Emails == {"a@x.com", "b@x.com"}
EventNames == {"Quiz", "Gala"}
QuestionIds == {1, 2}
Reqs == {1, 2}
RegReqs == {1, 2}

\* what a request presents: no Authorization header, "Bearer " with an empty
\* token, a token no session row holds, or a token that was issued (1, 2, ...)
NoHeader == -1
EmptyToken == -2
BogusToken == 0

\* a response: its HTTP status and, where a property reads it, its JSON body
\* (NoBody otherwise: error texts are not modelled)
NoBody == [kind |-> "none"]
Message(message) == [kind |-> "message", message |-> message]
EventList(ids) == [kind |-> "events", ids |-> ids]
UserBody(id) == [kind |-> "user", id |-> id]
SessionBody(sessionToken, id) ==
    [kind |-> "session", sessionToken |-> sessionToken, id |-> id]
Response(status, body) == [status |-> status, body |-> body]

Idle == [pc |-> "idle"]

(***************************************************************************)
(* Rows of the tables (models/user.py, models/event.py, models/round.py).  *)
(***************************************************************************)
\* bcrypt: the salted hash is modelled as a tagged copy of the password, and
\* checkpw succeeds exactly on the password that was hashed
set_password(password) == <<"bcrypt", password>>

check_password(user, password) == user.password_hash = <<"bcrypt", password>>

UserRow(username, email, password, last_login) ==
    [username |-> username, email |-> email,
     password_hash |-> set_password(password), last_login |-> last_login]

SessionRow(user_id, session_token, expires_at) ==
    [user_id |-> user_id, session_token |-> session_token, expires_at |-> expires_at]

EventRow(name, user_id, status, description, event_date) ==
    [name |-> name, user_id |-> user_id, event_date |-> event_date, status |-> status,
     description |-> description, is_deleted |-> FALSE]

RoundRow(event_id, round_number) ==
    [event_id |-> event_id, category_id |-> NULL, round_number |-> round_number,
     name |-> <<"Round", round_number>>, is_deleted |-> FALSE]

RoundQuestionRow(round_id, question_number, preset_question_id, user_question_id) ==
    [round_id |-> round_id, question_number |-> question_number,
     preset_question_id |-> preset_question_id, user_question_id |-> user_question_id]

EventIds == DOMAIN events
RoundIds == DOMAIN rounds
UserIds == DOMAIN users

(***************************************************************************)
(* utils/auth.py: the session guard.                                       *)
(***************************************************************************)
Unexpired_AtExpiry(expires_at) == expires_at >= now

\* .filter(UserSession.expires_at > datetime.now(timezone.utc))
Unexpired(expires_at) == expires_at > now

ValidSessions(session_token) ==
    {s \in sessions : s.session_token = session_token /\ Unexpired(s.expires_at)}

\* the id of the session's user, NULL for None
get_user_from_token(session_token) ==
    IF session_token = EmptyToken THEN NULL
    ELSE IF ValidSessions(session_token) = {} THEN NULL
    ELSE (CHOOSE s \in ValidSessions(session_token) : TRUE).user_id

\* require_auth answers 401 without a Bearer header or without a valid session;
\* otherwise request.user is get_user_from_token(tok)
Unauthorized(tok) == tok = NoHeader \/ get_user_from_token(tok) = NULL

IsOwner_Anyone(event, tok) == TRUE

\* event.user_id != request.user.id answers 403
IsOwner(event, tok) == event.user_id = get_user_from_token(tok)

(***************************************************************************)
(* routes/round/round_routes.py: create_round                              *)
(***************************************************************************)
RoundsOf(event_id) == {i \in RoundIds : rounds[i].event_id = event_id}

\* select(func.max(Round.round_number)).filter_by(event_id=event_id): NULL when
\* the event has no round row (soft-deleted rows are rows)
max_round_number(event_id) ==
    IF RoundsOf(event_id) = {} THEN NULL
    ELSE Max({rounds[i].round_number : i \in RoundsOf(event_id)})

NewRoundNumber_NoIncrement(max) == IF max = NULL THEN 0 ELSE max

\* new_round_number = (max_round_number or 0) + 1
NewRoundNumber(max) == (IF max = NULL THEN 0 ELSE max) + 1

uq_rounds_event_round_Off(event_id, round_number) == TRUE

\* UniqueConstraint('event_id', 'round_number'): may this row be inserted
uq_rounds_event_round(event_id, round_number) ==
    \A i \in RoundIds :
        ~(rounds[i].event_id = event_id /\ rounds[i].round_number = round_number)

\* create_round up to its read of the maximum: the guard, the body and event
\* checks with their early returns (a status), then the SELECT max(round_number)
\* (status NULL: the request goes on to its commit)
create_round_read(tok, event_id) ==
    IF Unauthorized(tok) THEN [status |-> 401]
    ELSE IF event_id = NULL THEN [status |-> 400]
    ELSE IF event_id \notin EventIds THEN [status |-> 404]
    ELSE IF ~IsOwner(events[event_id], tok) THEN [status |-> 403]
    ELSE [status |-> NULL,
          new_round_number |-> NewRoundNumber(max_round_number(event_id))]

\* create_round from db.session.add(new_round) on: the commit either inserts the
\* row (201) or raises on the unique constraint, and then the except branch
\* rolls back and answers 500
create_round_commit(event_id, new_round_number) ==
    IF uq_rounds_event_round(event_id, new_round_number)
    THEN [status |-> 201, rounds |-> Append(rounds, RoundRow(event_id, new_round_number))]
    ELSE [status |-> 500, rounds |-> rounds]

InFlight == {r \in Reqs : cr[r].pc # "idle"}

CreateRoundBegin(r, tok, event_id) ==
    LET o == create_round_read(tok, event_id) IN
    /\ cr[r].pc = "idle"
    /\ IF o.status # NULL
       THEN /\ resp' = Response(o.status, NoBody)
            /\ UNCHANGED cr
       ELSE /\ cr' = [cr EXCEPT ![r] = [pc |-> "read", event_id |-> event_id,
                                       new_round_number |-> o.new_round_number]]
            /\ UNCHANGED resp
    /\ UNCHANGED <<users, sessions, events, rounds, round_questions, now,
                   nextToken, reg, loggedOut>>
    /\ UNCHANGED <<catalogVars, user_generated_questions>>

\* the request ends with its commit, whether the commit succeeds or raises
CreateRoundCommit(r) ==
    /\ cr[r].pc = "read"
    /\ LET o == create_round_commit(cr[r].event_id, cr[r].new_round_number) IN
          /\ rounds' = o.rounds
          /\ resp' = Response(o.status, NoBody)
    /\ cr' = [cr EXCEPT ![r] = Idle]
    /\ UNCHANGED <<users, sessions, events, round_questions, now, nextToken,
                   reg, loggedOut>>
    /\ UNCHANGED <<catalogVars, user_generated_questions>>

(***************************************************************************)
(* routes/round/round_routes.py: delete_round                              *)
(***************************************************************************)
delete_round(tok, round_id) ==
    IF Unauthorized(tok) THEN [status |-> 401, rounds |-> rounds]
    ELSE IF round_id \notin RoundIds THEN [status |-> 404, rounds |-> rounds]
    ELSE IF ~IsOwner(events[rounds[round_id].event_id], tok)
    THEN [status |-> 403, rounds |-> rounds]
    ELSE [status |-> 200, rounds |-> [rounds EXCEPT ![round_id].is_deleted = TRUE]]

DeleteRound(tok, round_id) ==
    /\ LET o == delete_round(tok, round_id) IN
          /\ rounds' = o.rounds
          /\ resp' = Response(o.status, NoBody)
    /\ UNCHANGED <<users, sessions, events, round_questions, now, nextToken,
                   cr, reg, loggedOut>>
    /\ UNCHANGED <<catalogVars, user_generated_questions>>

(***************************************************************************)
(* routes/event/event_routes.py: create_or_update_event.  data is the JSON *)
(* body, a function from the keys it holds to their values.                *)
(***************************************************************************)
Get(data, key, default) == IF key \in DOMAIN data THEN data[key] ELSE default

\* datetime.fromisoformat: the one well-formed date string of the model parses
\* to the instant 1, every other string raises ValueError
ValidDate(event_date_str) == event_date_str = "2026-01-01"
fromisoformat(event_date_str) == 1

\* mutant of ApplyEventData: every key of the body is set on the row
ApplyEventData_AllKeys(event, data) ==
    [k \in DOMAIN event |->
        IF k \notin DOMAIN data THEN event[k]
        ELSE IF k # "event_date" THEN data[k]
        ELSE IF data[k] = None THEN NULL
        ELSE fromisoformat(data[k])]

\* the dictionary "ONLY with fields present in the request", applied to a row
ApplyEventData(event, data) ==
    [event EXCEPT
        !.name = Get(data, "name", @),
        !.description = Get(data, "description", @),
        !.status = Get(data, "status", @),
        !.event_date = IF "event_date" \notin DOMAIN data THEN @
                       ELSE IF data["event_date"] = None THEN NULL
                       ELSE fromisoformat(data["event_date"])]

create_or_update_event(tok, data) ==
    LET event_id == Get(data, "id", NULL)
        name == Get(data, "name", None)
    IN
    IF Unauthorized(tok) THEN [status |-> 401, events |-> events]
    ELSE IF DOMAIN data = {} THEN [status |-> 400, events |-> events]
    ELSE IF event_id = NULL /\ name \in {None, ""}
    THEN [status |-> 400, events |-> events]
    ELSE IF event_id # NULL /\ "name" \in DOMAIN data /\ name \in {None, ""}
    THEN [status |-> 400, events |-> events]
    ELSE IF /\ "event_date" \in DOMAIN data
            /\ data["event_date"] # None
            /\ ~ValidDate(data["event_date"])
    THEN [status |-> 400, events |-> events]
    ELSE IF event_id # NULL
    THEN IF event_id \notin EventIds THEN [status |-> 404, events |-> events]
         ELSE IF ~IsOwner(events[event_id], tok) THEN [status |-> 403, events |-> events]
         ELSE [status |-> 200,
               events |-> [events EXCEPT ![event_id] = ApplyEventData(@, data)]]
    ELSE [status |-> 201,
          events |-> Append(events,
              ApplyEventData(
                  EventRow(name, get_user_from_token(tok), "draft", None, NULL), data))]

CreateOrUpdateEvent(tok, data) ==
    /\ LET o == create_or_update_event(tok, data) IN
          /\ events' = o.events
          /\ resp' = Response(o.status, NoBody)
    /\ UNCHANGED <<users, sessions, rounds, round_questions, now, nextToken,
                   cr, reg, loggedOut>>
    /\ UNCHANGED <<catalogVars, user_generated_questions>>

(***************************************************************************)
(* routes/event/event_routes.py: delete_event and get_my_events            *)
(***************************************************************************)
delete_event(tok, event_id) ==
    IF Unauthorized(tok) THEN [status |-> 401, events |-> events]
    ELSE IF event_id \notin EventIds THEN [status |-> 404, events |-> events]
    ELSE IF ~IsOwner(events[event_id], tok) THEN [status |-> 403, events |-> events]
    ELSE [status |-> 200, events |-> [events EXCEPT ![event_id].is_deleted = TRUE]]

DeleteEvent(tok, event_id) ==
    /\ LET o == delete_event(tok, event_id) IN
          /\ events' = o.events
          /\ resp' = Response(o.status, NoBody)
    /\ UNCHANGED <<users, sessions, rounds, round_questions, now, nextToken,
                   cr, reg, loggedOut>>
    /\ UNCHANGED <<catalogVars, user_generated_questions>>

MyEvents_WithDeleted(user_id) == {e \in EventIds : events[e].user_id = user_id}

\* select(Event).filter_by(user_id=request.user.id).filter_by(is_deleted=False);
\* the ids of the rows returned (their order, by created_at, is not modelled)
MyEvents(user_id) ==
    {e \in EventIds : events[e].user_id = user_id /\ events[e].is_deleted = FALSE}

get_my_events(tok) ==
    IF Unauthorized(tok) THEN Response(401, NoBody)
    ELSE Response(200, EventList(MyEvents(get_user_from_token(tok))))

GetMyEvents(tok) ==
    /\ resp' = get_my_events(tok)
    /\ UNCHANGED <<users, sessions, events, rounds, round_questions, now,
                   nextToken, cr, reg, loggedOut>>
    /\ UNCHANGED <<catalogVars, user_generated_questions>>

(***************************************************************************)
(* models/round.py: an INSERT into round_questions.  No handler of the     *)
(* server writes this table; whoever inserts meets the table's             *)
(* constraints, and a rejected insert raises IntegrityError and leaves the *)
(* table as it was.                                                        *)
(***************************************************************************)
ck_round_questions_question_type_AtLeastOne(preset_question_id, user_question_id) ==
    preset_question_id # NULL \/ user_question_id # NULL

\* CheckConstraint('(preset_question_id IS NULL AND user_question_id IS NOT NULL)
\*                  OR (preset_question_id IS NOT NULL AND user_question_id IS NULL)')
ck_round_questions_question_type(preset_question_id, user_question_id) ==
    \/ (preset_question_id = NULL /\ user_question_id # NULL)
    \/ (preset_question_id # NULL /\ user_question_id = NULL)

\* UniqueConstraint('round_id', 'question_number')
uq_round_questions_round_number(round_id, question_number) ==
    \A q \in round_questions :
        ~(q.round_id = round_id /\ q.question_number = question_number)

insert_round_question(round_id, question_number, preset_question_id, user_question_id) ==
    IF /\ round_id \in RoundIds
       /\ uq_round_questions_round_number(round_id, question_number)
       /\ ck_round_questions_question_type(preset_question_id, user_question_id)
    THEN [result |-> "inserted",
          round_questions |-> round_questions \cup
              {RoundQuestionRow(round_id, question_number,
                                preset_question_id, user_question_id)}]
    ELSE [result |-> "IntegrityError", round_questions |-> round_questions]

InsertRoundQuestion(round_id, question_number, preset_question_id, user_question_id) ==
    /\ LET o == insert_round_question(round_id, question_number,
                                      preset_question_id, user_question_id) IN
          /\ round_questions' = o.round_questions
          /\ resp' = Response(0, Message(o.result))
    /\ UNCHANGED <<users, sessions, events, rounds, now, nextToken, cr, reg, loggedOut>>
    /\ UNCHANGED <<catalogVars, user_generated_questions>>

(***************************************************************************)
(* routes/user/user_routes.py: login, logout and get_current_user          *)
(***************************************************************************)
\* what a handler of user_routes.py that writes nothing answers
Refused(status) ==
    [status |-> status, body |-> NoBody, users |-> users, sessions |-> sessions,
     nextToken |-> nextToken]

IssueSession_NoLastLogin(status, user_id) ==
    [status |-> status, body |-> SessionBody(nextToken, user_id),
     users |-> users,
     sessions |-> sessions \cup {SessionRow(user_id, nextToken, now + SESSION_DAYS)},
     nextToken |-> nextToken + 1]

\* session_token = secrets.token_urlsafe(32); expires_at = now + timedelta(days=7);
\* UserSession(...); last_login = now; db.session.add(new_session); commit
IssueSession(status, user_id) ==
    [status |-> status, body |-> SessionBody(nextToken, user_id),
     users |-> [users EXCEPT ![user_id].last_login = now],
     sessions |-> sessions \cup {SessionRow(user_id, nextToken, now + SESSION_DAYS)},
     nextToken |-> nextToken + 1]

UsersWithEmail(email) == {u \in UserIds : users[u].email = email}

login(data) ==
    IF ~({"email", "password"} \subseteq DOMAIN data) THEN Refused(400)
    ELSE IF UsersWithEmail(data["email"]) = {} THEN Refused(401)
    ELSE LET user_id == CHOOSE u \in UsersWithEmail(data["email"]) : TRUE IN
         IF ~check_password(users[user_id], data["password"]) THEN Refused(401)
         ELSE IssueSession(200, user_id)

Login(data) ==
    /\ LET o == login(data) IN
          /\ users' = o.users
          /\ sessions' = o.sessions
          /\ nextToken' = o.nextToken
          /\ resp' = Response(o.status, o.body)
    /\ UNCHANGED <<events, rounds, round_questions, now, cr, reg, loggedOut>>
    /\ UNCHANGED <<catalogVars, user_generated_questions>>

DeleteSession_Keep(session_token) == sessions

\* mutant of DeleteSession: every session of the token's user is deleted
DeleteSession_AllOfUser(session_token) ==
    {s \in sessions : \A t \in sessions :
        t.session_token = session_token => s.user_id # t.user_id}

DeleteSession_Expired(session_token) ==
    {s \in sessions : s.session_token # session_token /\ Unexpired(s.expires_at)}

\* db.session.delete(session_to_delete); db.session.commit()
DeleteSession(session_token) ==
    {s \in sessions : s.session_token # session_token}

logout(tok) ==
    IF Unauthorized(tok) THEN [status |-> 401, body |-> NoBody, sessions |-> sessions]
    ELSE [status |-> 200, body |-> Message("Logged out successfully"),
          sessions |-> DeleteSession(tok)]

Logout(tok) ==
    /\ LET o == logout(tok) IN
          /\ sessions' = o.sessions
          /\ resp' = Response(o.status, o.body)
          /\ loggedOut' = IF o.status = 200 THEN loggedOut \cup {tok} ELSE loggedOut
    /\ UNCHANGED <<users, events, rounds, round_questions, now, nextToken, cr, reg>>
    /\ UNCHANGED <<catalogVars, user_generated_questions>>

get_current_user(tok) ==
    IF Unauthorized(tok) THEN Response(401, NoBody)
    ELSE Response(200, UserBody(get_user_from_token(tok)))

GetCurrentUser(tok) ==
    /\ resp' = get_current_user(tok)
    /\ UNCHANGED <<users, sessions, events, rounds, round_questions, now,
                   nextToken, cr, reg, loggedOut>>
    /\ UNCHANGED <<catalogVars, user_generated_questions>>

\* a day passes
Tick ==
    /\ now' = now + 1
    /\ UNCHANGED <<users, sessions, events, rounds, round_questions, nextToken,
                   cr, reg, resp, loggedOut>>
    /\ UNCHANGED <<catalogVars, user_generated_questions>>

(***************************************************************************)
(* routes/user/user_routes.py: register.  The handler checks that no user  *)
(* holds the username or the email, commits the user row, and then commits *)
(* the session row and last_login in a second transaction; other requests  *)
(* run between these three steps.                                          *)
(***************************************************************************)
\* select(User).filter((User.username == username) | (User.email == email))
existing_user(username, email) ==
    {u \in UserIds : users[u].username = username \/ users[u].email = email}

\* the early returns of register: a status, or NULL when the request goes on
register_check(data) ==
    IF ~({"username", "email", "password"} \subseteq DOMAIN data) THEN 400
    ELSE IF existing_user(data["username"], data["email"]) # {} THEN 409
    ELSE NULL

\* unique=True on users.username and on users.email: may this row be inserted
uq_users(username, email) ==
    \A u \in UserIds : users[u].username # username /\ users[u].email # email

\* db.session.add(new_user); db.session.commit(): the row is inserted, or the
\* commit raises on a unique constraint and the except branch rolls back and
\* answers 500
register_commit_user(username, email, password) ==
    IF uq_users(username, email)
    THEN [status |-> NULL, users |-> Append(users, UserRow(username, email, password, NULL))]
    ELSE [status |-> 500, users |-> users]

RegisterCheck(r, data) ==
    LET status == register_check(data) IN
    /\ reg[r].pc = "idle"
    /\ IF status # NULL
       THEN /\ resp' = Response(status, NoBody)
            /\ UNCHANGED reg
       ELSE /\ reg' = [reg EXCEPT ![r] = [pc |-> "checked", username |-> data["username"],
                                          email |-> data["email"],
                                          password |-> data["password"]]]
            /\ UNCHANGED resp
    /\ UNCHANGED <<users, sessions, events, rounds, round_questions, now,
                   nextToken, cr, loggedOut>>
    /\ UNCHANGED <<catalogVars, user_generated_questions>>

RegisterCommitUser(r) ==
    /\ reg[r].pc = "checked"
    /\ LET o == register_commit_user(reg[r].username, reg[r].email, reg[r].password) IN
          /\ users' = o.users
          /\ IF o.status = NULL
             THEN /\ reg' = [reg EXCEPT ![r] = [pc |-> "user", user_id |-> Len(o.users)]]
                  /\ UNCHANGED resp
             ELSE /\ reg' = [reg EXCEPT ![r] = Idle]
                  /\ resp' = Response(o.status, NoBody)
    /\ UNCHANGED <<sessions, events, rounds, round_questions, now, nextToken,
                   cr, loggedOut>>
    /\ UNCHANGED <<catalogVars, user_generated_questions>>

RegisterCommitSession(r) ==
    /\ reg[r].pc = "user"
    /\ LET o == IssueSession(201, reg[r].user_id) IN
          /\ users' = o.users
          /\ sessions' = o.sessions
          /\ nextToken' = o.nextToken
          /\ resp' = Response(o.status, o.body)
    /\ reg' = [reg EXCEPT ![r] = Idle]
    /\ UNCHANGED <<events, rounds, round_questions, now, cr, loggedOut>>
    /\ UNCHANGED <<catalogVars, user_generated_questions>>

\* the second commit raises (the database connection is lost): the except
\* branch rolls back what is not yet committed, the session row and last_login,
\* and answers 500
RegisterCommitSessionRaises(r) ==
    /\ reg[r].pc = "user"
    /\ resp' = Response(500, NoBody)
    /\ reg' = [reg EXCEPT ![r] = Idle]
    /\ UNCHANGED <<users, sessions, events, rounds, round_questions, now,
                   nextToken, cr, loggedOut>>
    /\ UNCHANGED <<catalogVars, user_generated_questions>>

\* No preset question and no category is stored, and no import has run in
\* the process: the dict of anki/import_misc.py is the empty dict its module
\* creates on import.
EmptyCatalog ==
    /\ trivia_questions = <<>>
    /\ categories = {}
    /\ category_seq = 0
    /\ category_cache = <<>>
    /\ imp = Idle
    /\ matcher = "difflib"
    /\ user_generated_questions = <<>>

(***************************************************************************)
(* States the specifications start from, and the requests they send.       *)
(***************************************************************************)
\* ann and bob have registered
Registered ==
    users = <<UserRow("ann", "a@x.com", "pw", NULL), UserRow("bob", "b@x.com", "pw", NULL)>>

\* ann and bob have registered at instant 0 and hold the sessions 1 and 2
TwoUsers ==
    /\ users = <<UserRow("ann", "a@x.com", "pw", 0), UserRow("bob", "b@x.com", "pw", 0)>>
    /\ sessions = {SessionRow(1, 1, SESSION_DAYS), SessionRow(2, 2, SESSION_DAYS)}
    /\ now = 0
    /\ nextToken = 3
    /\ loggedOut = {}
    /\ reg = [r \in RegReqs |-> Idle]
    /\ EmptyCatalog

\* everything a request may present where a token is expected
Tokens == {NoHeader, EmptyToken, BogusToken} \cup (1 .. nextToken - 1)

\* the tokens issued, and with them one that no session row holds
Issued == 1 .. nextToken - 1
Presented == {BogusToken} \cup Issued

\* bodies of POST /api/events
EmptyBody == [k \in {} |-> None]

WithId(bodies, ids) ==
    bodies \cup {[k \in DOMAIN b \cup {"id"} |-> IF k = "id" THEN i ELSE b[k]] :
                    b \in bodies, i \in ids}

NameBodies == {EmptyBody} \cup {[name |-> n] : n \in EventNames \cup {""}}

BadDateBodies == {[event_date |-> "garbage"]}

\* bodies of POST /auth/login and POST /auth/register
LoginBodies ==
    {[email |-> e, password |-> p] : e \in Emails, p \in {"pw", "bad"}}
        \cup {[email |-> "a@x.com"]}

RegisterBodies ==
    {[username |-> u, email |-> e, password |-> "pw"] : u \in Usernames, e \in Emails}
        \cup {[username |-> "ann", email |-> "a@x.com"]}

(***************************************************************************)
(* Spec: round numbering under concurrency.  ann and bob are registered    *)
(* and logged in and each has created one event; any requester sends       *)
(* create-round and delete-round requests, and two create-round requests   *)
(* may be in flight at once.                                               *)
(***************************************************************************)
Init ==
    /\ TwoUsers
    /\ events = <<EventRow("Quiz", 1, "draft", None, NULL),
                  EventRow("Gala", 2, "draft", None, NULL)>>
    /\ rounds = <<>>
    /\ round_questions = {}
    /\ cr = [r \in Reqs |-> Idle]
    /\ resp = Response(0, NoBody)

Next ==
    \/ \E r \in Reqs, tok \in Presented, event_id \in {NULL} \cup 1 .. Len(events) + 1 :
          /\ Len(rounds) + Cardinality(InFlight) < MaxRounds
          /\ CreateRoundBegin(r, tok, event_id)
    \/ \E r \in Reqs : CreateRoundCommit(r)
    \/ \E tok \in Presented, round_id \in 1 .. Len(rounds) + 1 : DeleteRound(tok, round_id)

Spec == Init /\ [][Next]_vars

(***************************************************************************)
(* SpecEvent: the life of events and their rounds.  ann and bob are        *)
(* registered and logged in; each of them creates, updates, lists and      *)
(* deletes events, creates and deletes rounds, their own and the other's,  *)
(* and rows are inserted into round_questions.                             *)
(***************************************************************************)
\* the rows in events, rounds and round_questions, a round about to be
\* inserted counted
Rows ==
    Len(events) + Len(rounds) + Cardinality(round_questions) + Cardinality(InFlight)

InitEvent ==
    /\ TwoUsers
    /\ events = <<>>
    /\ rounds = <<>>
    /\ round_questions = {}
    /\ cr = [r \in Reqs |-> Idle]
    /\ resp = Response(0, NoBody)

NextEvent ==
    \/ \E tok \in Issued,
          data \in WithId(NameBodies \cup BadDateBodies, 1 .. Len(events) + 1) :
          /\ (Get(data, "id", NULL) = NULL => Rows < MaxRows)
          /\ CreateOrUpdateEvent(tok, data)
    \/ \E tok \in Issued, event_id \in 1 .. Len(events) + 1 : DeleteEvent(tok, event_id)
    \/ \E tok \in Issued : GetMyEvents(tok)
    \/ \E tok \in Issued, event_id \in {NULL} \cup 1 .. Len(events) + 1 :
          /\ Rows < MaxRows
          /\ CreateRoundBegin(1, tok, event_id)
    \/ CreateRoundCommit(1)
    \/ \E tok \in Issued, round_id \in 1 .. Len(rounds) + 1 : DeleteRound(tok, round_id)
    \/ \E round_id \in 1 .. Len(rounds) + 1,
          preset_question_id \in {NULL, 1}, user_question_id \in {NULL, 1} :
          /\ InsertRoundQuestion(round_id, 1, preset_question_id, user_question_id)
          /\ (round_questions' # round_questions => Rows < MaxRows)

SpecEvent == InitEvent /\ [][NextEvent]_vars

(***************************************************************************)
(* SpecRQ: inserts into round_questions.  Two rounds of ann's event exist; *)
(* rows with any combination of the two question references are inserted.  *)
(***************************************************************************)
InitRQ ==
    /\ TwoUsers
    /\ events = <<EventRow("Quiz", 1, "draft", None, NULL)>>
    /\ rounds = <<RoundRow(1, 1), RoundRow(1, 2)>>
    /\ round_questions = {}
    /\ cr = [r \in Reqs |-> Idle]
    /\ resp = Response(0, NoBody)

NextRQ ==
    \E round_id \in 1 .. Len(rounds) + 1, question_number \in 1 .. MaxRoundQuestions,
       preset_question_id \in {NULL} \cup QuestionIds,
       user_question_id \in {NULL} \cup QuestionIds :
       /\ InsertRoundQuestion(round_id, question_number,
                              preset_question_id, user_question_id)
       /\ Cardinality(round_questions') <= MaxRoundQuestions

SpecRQ == InitRQ /\ [][NextRQ]_vars

(***************************************************************************)
(* SpecSession: the life of sessions.  ann and bob are registered and ann  *)
(* owns an event; users log in and out, present tokens to guarded          *)
(* handlers, and days pass.                                                *)
(***************************************************************************)
InitSession ==
    /\ Registered
    /\ sessions = {}
    /\ now = 0
    /\ nextToken = 1
    /\ loggedOut = {}
    /\ reg = [r \in RegReqs |-> Idle]
    /\ EmptyCatalog
    /\ events = <<EventRow("Quiz", 1, "draft", None, NULL)>>
    /\ rounds = <<RoundRow(1, 1)>>
    /\ round_questions = {}
    /\ cr = [r \in Reqs |-> Idle]
    /\ resp = Response(0, NoBody)

NextSession ==
    \/ \E data \in LoginBodies :
          /\ (login(data).status = 200 => nextToken <= MaxTokens)
          /\ Login(data)
    \/ \E tok \in Tokens : Logout(tok)
    \/ \E tok \in Tokens : GetCurrentUser(tok)
    \/ (now < MaxTime /\ Tick)

SpecSession == InitSession /\ [][NextSession]_vars

(***************************************************************************)
(* SpecRegister: registration.  No user exists; up to two register         *)
(* requests run at once, and users log in.                                 *)
(***************************************************************************)
InitRegister ==
    /\ users = <<>>
    /\ sessions = {}
    /\ now = 0
    /\ nextToken = 1
    /\ loggedOut = {}
    /\ reg = [r \in RegReqs |-> Idle]
    /\ EmptyCatalog
    /\ events = <<>>
    /\ rounds = <<>>
    /\ round_questions = {}
    /\ cr = [r \in Reqs |-> Idle]
    /\ resp = Response(0, NoBody)

\* the register requests that have passed the check and not yet inserted
Checked == {r \in RegReqs : reg[r].pc = "checked"}

NextRegister ==
    \/ \E r \in RegReqs, data \in RegisterBodies :
          /\ (register_check(data) = NULL => Len(users) + Cardinality(Checked) < MaxUsers)
          /\ RegisterCheck(r, data)
    \/ \E r \in RegReqs : RegisterCommitUser(r)
    \/ \E r \in RegReqs : RegisterCommitSession(r)
    \/ \E r \in RegReqs : RegisterCommitSessionRaises(r)
    \/ \E data \in LoginBodies :
          /\ (login(data).status = 200 => nextToken <= MaxTokens)
          /\ Login(data)

SpecRegister == InitRegister /\ [][NextRegister]_vars

(***************************************************************************)
(* Properties of round numbering (Spec).                                   *)
(***************************************************************************)
Taken(event_id, round_number) ==
    \E i \in RoundIds :
        rounds[i].event_id = event_id /\ rounds[i].round_number = round_number

\* C1: in every reachable state no two round rows of one event carry the same
\* round_number, whether or not either row is soft-deleted.
C1_UniqueRoundNumbers ==
    \A i, j \in RoundIds :
        (i # j /\ rounds[i].event_id = rounds[j].event_id)
            => rounds[i].round_number # rounds[j].round_number

\* two rows of one event, one of them soft-deleted, after a create-round request
\* lost the race for a number
C1_Witness ==
    /\ resp.status = 500
    /\ \E i, j \in RoundIds :
          /\ i # j
          /\ rounds[i].event_id = rounds[j].event_id
          /\ rounds[i].is_deleted
          /\ ~rounds[j].is_deleted

\* both requests have read the same maximum of the same event and neither has
\* committed
Race(r1, r2) ==
    /\ r1 # r2
    /\ cr[r1].pc = "read"
    /\ cr[r2].pc = "read"
    /\ cr[r1].event_id = cr[r2].event_id
    /\ cr[r1].new_round_number = cr[r2].new_round_number

\* C2: of two create-round requests that read the same maximum, the first to
\* commit inserts its round (201); the other, whose (event_id, round_number) is
\* then taken, is answered with the error 500, adds no row, and has ended (it
\* is not in flight again: no retry).
C2_RaceLoserRejected ==
    [][\A r \in Reqs :
          (cr[r].pc = "read" /\ cr'[r] # cr[r]) =>
              /\ cr'[r] = Idle
              /\ (\E r2 \in Reqs : Race(r, r2)) =>
                    /\ rounds' = Append(rounds,
                           RoundRow(cr[r].event_id, cr[r].new_round_number))
                    /\ resp'.status = 201
              /\ Taken(cr[r].event_id, cr[r].new_round_number) =>
                    /\ rounds' = rounds
                    /\ resp'.status = 500]_vars

\* the race is over: one row was inserted, the loser was answered 500 and no
\* request is in flight
C2_Witness ==
    /\ resp.status = 500
    /\ Len(rounds) = 1
    /\ \A r \in Reqs : cr[r] = Idle

\* the rows of event_id in creation (id) order carry the numbers 1, 2, 3, ...
InCreationOrder(event_id) ==
    \A i \in RoundsOf(event_id) :
        rounds[i].round_number = Cardinality({j \in RoundsOf(event_id) : j <= i})

\* C3: a create-round that succeeds gives the new round the number 1 + the
\* largest round_number among the event's rows at its commit (1 when there is
\* none), so the rounds of every event are numbered 1, 2, 3, ... in creation
\* order.  This holds of every successful create-round, the ones that ran
\* without a concurrent create-round on the event among them.
C3_NextRoundNumber ==
    /\ [](\A e \in EventIds : InCreationOrder(e))
    /\ [][Len(rounds') = Len(rounds) + 1 =>
            LET new == rounds'[Len(rounds')] IN
            new.round_number =
                IF RoundsOf(new.event_id) = {} THEN 1
                ELSE 1 + Max({rounds[i].round_number : i \in RoundsOf(new.event_id)})]_vars

\* three creates on a fresh event gave the numbers 1, 2, 3 in creation order
C3_Witness ==
    /\ Len(rounds) = 3
    /\ \A i \in 1 .. 3 : rounds[i].event_id = 1 /\ rounds[i].round_number = i

(***************************************************************************)
(* Properties of round_questions (SpecRQ).                                 *)
(***************************************************************************)
ExactlyOneSource(q) ==
    (q.preset_question_id = NULL) # (q.user_question_id = NULL)

\* C4: every round_questions row has exactly one of preset_question_id and
\* user_question_id non-null, and an insert that sets both or neither is
\* rejected and leaves the table unchanged.
C4_ExactlyOneQuestionSource ==
    /\ \A q \in round_questions : ExactlyOneSource(q)
    /\ \A round_id \in 1 .. Len(rounds) + 1, question_number \in 1 .. MaxRoundQuestions,
          p \in {NULL} \cup QuestionIds, u \in {NULL} \cup QuestionIds :
          ((p = NULL) = (u = NULL)) =>
              insert_round_question(round_id, question_number, p, u)
                  = [result |-> "IntegrityError", round_questions |-> round_questions]

\* a catalog row and a user-question row are stored and an insert was rejected
C4_Witness ==
    /\ \E q \in round_questions : q.preset_question_id # NULL
    /\ \E q \in round_questions : q.user_question_id # NULL
    /\ resp.body = Message("IntegrityError")

(***************************************************************************)
(* Properties of ownership and soft deletion (SpecEvent).                  *)
(***************************************************************************)
\* tok is the token of a logged-in user who does not own the event
NotOwner(tok, event_id) ==
    /\ get_user_from_token(tok) # NULL
    /\ event_id \in EventIds
    /\ events[event_id].user_id # get_user_from_token(tok)

UpdateBodies ==
    {data \in WithId(NameBodies \cup BadDateBodies, EventIds) : "id" \in DOMAIN data}

\* the body of an update passes the checks made before the event is fetched
WellFormed(data) ==
    /\ "name" \in DOMAIN data => data["name"] # ""
    /\ "event_date" \in DOMAIN data => data["event_date"] \in {None, "2026-01-01"}

\* what the non-owner's event-delete, round-create and round-delete requests
\* are answered and write: 403 and nothing
NonOwnerOthers403(tok) ==
    /\ \A event_id \in EventIds :
          NotOwner(tok, event_id) =>
              /\ delete_event(tok, event_id) = [status |-> 403, events |-> events]
              /\ create_round_read(tok, event_id) = [status |-> 403]
    /\ \A round_id \in RoundIds :
          NotOwner(tok, rounds[round_id].event_id) =>
              delete_round(tok, round_id) = [status |-> 403, rounds |-> rounds]

\* a request that ends with 400 or 403 has written no row
RefusedWritesNothing ==
    <<events, rounds, round_questions>>' # <<events, rounds, round_questions>>
        => resp'.status \notin {400, 403}

\* C5 as claimed: every event-update, event-delete, round-create and
\* round-delete request of an authenticated user who does not own the event is
\* answered 403 and creates or changes no event or round row.
C5_NonOwnerAlways403 ==
    /\ [](\A tok \in Presented :
            /\ NonOwnerOthers403(tok)
            /\ \A data \in UpdateBodies :
                  NotOwner(tok, data["id"]) =>
                      create_or_update_event(tok, data)
                          = [status |-> 403, events |-> events])
    /\ [][RefusedWritesNothing]_vars

\* C5 amended: such a request creates or changes no event or round row and is
\* answered 403, except that an event-update whose body fails validation (a
\* name that is present and empty, an event_date that is no ISO date) is
\* answered 400 before ownership is looked at.
C5_NonOwnerRejected ==
    /\ [](\A tok \in Presented :
            /\ NonOwnerOthers403(tok)
            /\ \A data \in UpdateBodies :
                  NotOwner(tok, data["id"]) =>
                      create_or_update_event(tok, data)
                          = [status |-> IF WellFormed(data) THEN 403 ELSE 400,
                             events |-> events])
    /\ [][RefusedWritesNothing]_vars

\* a request was answered 403 while an event with a round exists that is
\* neither renamed nor deleted
C5_Witness ==
    /\ resp.status = 403
    /\ \E round_id \in RoundIds :
          /\ ~rounds[round_id].is_deleted
          /\ ~events[rounds[round_id].event_id].is_deleted

\* C10: the owner's DELETE /api/events/{id} is answered 200 and changes nothing
\* but the event's is_deleted flag; the step that sets the flag keeps every
\* event, round and round_questions row as it was; no row is ever removed and
\* the flag stays set in every later state; and from then on no answer of
\* GET /api/events/my lists the event.
C10_SoftDeletedEventHidden ==
    /\ [](\A tok \in Presented, event_id \in EventIds :
            get_user_from_token(tok) = events[event_id].user_id =>
                delete_event(tok, event_id) =
                    [status |-> 200,
                     events |-> [events EXCEPT ![event_id].is_deleted = TRUE]])
    /\ [][\A event_id \in EventIds :
             /\ event_id \in DOMAIN events'
             /\ events[event_id].is_deleted => events'[event_id].is_deleted
             /\ (~events[event_id].is_deleted /\ events'[event_id].is_deleted) =>
                   /\ events' = [events EXCEPT ![event_id].is_deleted = TRUE]
                   /\ UNCHANGED <<rounds, round_questions>>]_vars
    /\ [][/\ \A round_id \in RoundIds :
                /\ round_id \in DOMAIN rounds'
                /\ rounds'[round_id].event_id = rounds[round_id].event_id
          /\ round_questions \subseteq round_questions']_vars
    /\ [](\A tok \in Presented :
            LET r == get_my_events(tok) IN
            r.status = 200 =>
                \A event_id \in EventIds :
                    events[event_id].is_deleted => event_id \notin r.body.ids)

\* the owner of a deleted event, which has a round with a question, has just
\* listed their events
C10_Witness ==
    /\ resp.status = 200
    /\ resp.body.kind = "events"
    /\ \E q \in round_questions :
          /\ events[rounds[q.round_id].event_id].is_deleted
          /\ ~rounds[q.round_id].is_deleted
          /\ \E s \in sessions :
                /\ s.user_id = events[rounds[q.round_id].event_id].user_id
                /\ resp.body.ids = MyEvents(s.user_id)

(***************************************************************************)
(* Properties of sessions (SpecSession).                                   *)
(***************************************************************************)
\* the statuses the guarded handlers answer a request that presents tok
GuardedStatuses(tok) ==
    {get_current_user(tok).status, logout(tok).status, get_my_events(tok).status,
     create_or_update_event(tok, [name |-> "Quiz"]).status,
     delete_event(tok, 1).status, create_round_read(tok, 1).status,
     delete_round(tok, 1).status}

\* a session row with this token exists whose expires_at is later than now
HasLiveSession(tok) ==
    \E s \in sessions : s.session_token = tok /\ s.expires_at > now

\* C6: a guarded request is let through (not answered 401) exactly when a
\* session row with the token it presents exists and expires_at > now; every
\* session row is inserted with expires_at = now + 7 days; so a session issued
\* at T authenticates at T + 6 days and is answered 401 at T + 8 days.
C6_SessionValidUntilExpiry ==
    /\ [](\A tok \in Tokens :
            IF HasLiveSession(tok) THEN 401 \notin GuardedStatuses(tok)
            ELSE GuardedStatuses(tok) = {401})
    /\ [][\A s \in sessions' \ sessions : s.expires_at = now + SESSION_DAYS]_vars
    /\ [](\A s \in sessions :
            LET T == s.expires_at - SESSION_DAYS IN
            /\ now = T + 6 =>
                  get_current_user(s.session_token) = Response(200, UserBody(s.user_id))
            /\ now = T + 8 => get_current_user(s.session_token) = Response(401, NoBody))

\* one session is a day past its expiry and another a day before it (issued
\* 8 and 6 days ago), and a request was answered 401
C6_Witness ==
    /\ resp.status = 401
    /\ \E s1, s2 \in sessions :
          s1.expires_at = now - 1 /\ s2.expires_at = now + 1

\* C7: once a logout that presented token t has succeeded, no session row
\* holds t and every guarded handler answers a request presenting t with 401,
\* in that state and in every later one.
C7_LoggedOutTokenRejected ==
    /\ [](\A t \in loggedOut :
            /\ \A s \in sessions : s.session_token # t
            /\ GuardedStatuses(t) = {401})
    /\ [][loggedOut \subseteq loggedOut']_vars

\* a token was logged out less than 7 days after the first login, so it would
\* not have expired; another session is live; a request was answered 401
C7_Witness ==
    /\ loggedOut # {}
    /\ now < SESSION_DAYS
    /\ \E s \in sessions : s.expires_at > now
    /\ resp.status = 401

(***************************************************************************)
(* Properties of registration (SpecRegister).                              *)
(***************************************************************************)
\* C8 (register, login): a request that ends with an error response has left
\* users and user_sessions as they were before it (no row it wrote is in the
\* tables), and a register request is never visible partially committed: its
\* user row and its session row are committed in one step.
C8_ErrorLeavesDatabaseUnchanged ==
    /\ [][(resp' # resp /\ resp'.status >= 400) =>
             (users' = users /\ sessions' = sessions)]_vars
    /\ [][\A r \in RegReqs :
             (reg[r].pc = "user" /\ reg'[r] = Idle /\ resp'.status >= 400)
                 => reg[r].user_id \notin DOMAIN users']_vars
    /\ [][Len(users') > Len(users) =>
             \E s \in sessions' \ sessions : s.user_id = Len(users')]_vars

\* a register request was answered 500 and its user row is committed: a user
\* exists although no session was ever issued and no request is in flight
C8_Witness ==
    /\ resp.status = 500
    /\ Len(users) = 1
    /\ nextToken = 1
    /\ \A r \in RegReqs : reg[r] = Idle

\* C9: a register request whose username or email is held by a committed user
\* is answered 409 and inserts no user row and no session row; this holds at
\* the existence check and for a request that passed the check and finds the
\* username or email taken when it inserts.
C9_DuplicateRegisterAnswered409 ==
    /\ [](\A data \in RegisterBodies :
            (/\ {"username", "email", "password"} \subseteq DOMAIN data
             /\ existing_user(data["username"], data["email"]) # {})
                => register_check(data) = 409)
    /\ [][\A r \in RegReqs :
             (/\ reg[r].pc = "checked"
              /\ reg'[r] # reg[r]
              /\ existing_user(reg[r].username, reg[r].email) # {})
                 => /\ resp'.status = 409
                    /\ users' = users
                    /\ sessions' = sessions]_vars

\* two register requests raced for a username or an email: the winner is
\* registered and holds its session, the loser was answered 500
C9_Witness ==
    /\ resp.status = 500
    /\ Len(users) = 1
    /\ \E s \in sessions : s.user_id = 1 /\ s.session_token = 1
    /\ \A r \in RegReqs : reg[r] = Idle

(***************************************************************************)
(* routes/event/event_routes.py: get_event; routes/round/round_routes.py:  *)
(* get_round and get_round_questions.                                      *)
(***************************************************************************)
EventBody(id, rounds_data) == [kind |-> "event", id |-> id, rounds |-> rounds_data]
RoundBody(id, question_numbers) ==
    [kind |-> "round", id |-> id, questions |-> question_numbers]
QuestionsBody(question_numbers) == [kind |-> "questions", questions |-> question_numbers]

\* selectinload(Event.rounds.and_(Round.is_deleted == False)): the rounds the
\* loaded event carries
LoadedRounds(event_id) == {i \in RoundsOf(event_id) : rounds[i].is_deleted = FALSE}

\* selectinload(Round.normalized_questions): the question numbers of the
\* round's rows in the view
normalized_questions(round_id) ==
    {q.question_number : q \in {x \in round_questions : x.round_id = round_id}}

\* mutant of order_by: descending
RECURSIVE order_by_Desc(_)
order_by_Desc(S) ==
    IF S = {} THEN <<>>
    ELSE LET x == CHOOSE x \in S : \A y \in S : x.key >= y.key IN
         <<x.row>> \o order_by_Desc(S \ {x})

\* relationship(..., order_by=...): the rows of S, pairs of a key and a row,
\* in ascending order of the key
RECURSIVE order_by(_)
order_by(S) ==
    IF S = {} THEN <<>>
    ELSE LET x == CHOOSE x \in S : \A y \in S : x.key <= y.key IN
         <<x.row>> \o order_by(S \ {x})

\* r.normalized_questions, order_by NormalizedQuestion.question_number: the
\* question numbers of the round in the order of the list
questions_data(round_id) ==
    order_by({[key |-> n, row |-> n] : n \in normalized_questions(round_id)})

\* event.rounds, order_by Round.round_number, of the rounds loaded: for each
\* its id, its number and its questions
rounds_data(event_id) ==
    order_by({[key |-> rounds[i].round_number,
               row |-> [id |-> i, roundNumber |-> rounds[i].round_number,
                        questions |-> questions_data(i)]] :
              i \in LoadedRounds(event_id)})

\* select(Event).options(...).filter_by(id=event_id): the statement filters on
\* the id alone
get_event(tok, event_id) ==
    IF Unauthorized(tok) THEN Response(401, NoBody)
    ELSE IF event_id \notin EventIds THEN Response(404, NoBody)
    ELSE IF ~IsOwner(events[event_id], tok) THEN Response(403, NoBody)
    ELSE Response(200, EventBody(event_id, rounds_data(event_id)))

\* select(Event.user_id).join(Round).filter(Round.id == round_id)
event_owner_id(round_id) ==
    IF rounds[round_id].event_id \in EventIds
    THEN events[rounds[round_id].event_id].user_id
    ELSE NULL

\* db.session.get(Round, round_id), the owner check, then
\* select(Round).where(Round.id == round_id)
get_round(tok, round_id) ==
    IF Unauthorized(tok) THEN Response(401, NoBody)
    ELSE IF round_id \notin RoundIds THEN Response(404, NoBody)
    ELSE IF event_owner_id(round_id) = NULL THEN Response(500, NoBody)
    ELSE IF event_owner_id(round_id) # get_user_from_token(tok) THEN Response(403, NoBody)
    ELSE Response(200, RoundBody(round_id, normalized_questions(round_id)))

get_round_questions(tok, round_id) ==
    IF Unauthorized(tok) THEN Response(401, NoBody)
    ELSE IF round_id \notin RoundIds THEN Response(404, NoBody)
    ELSE IF event_owner_id(round_id) = NULL THEN Response(500, NoBody)
    ELSE IF event_owner_id(round_id) # get_user_from_token(tok) THEN Response(403, NoBody)
    ELSE Response(200, QuestionsBody(normalized_questions(round_id)))

ReadOnly ==
    UNCHANGED <<users, sessions, events, rounds, round_questions, now,
                nextToken, cr, reg, loggedOut, catalogVars,
          user_generated_questions>>

GetEvent(tok, event_id) == resp' = get_event(tok, event_id) /\ ReadOnly

GetRound(tok, round_id) == resp' = get_round(tok, round_id) /\ ReadOnly

GetRoundQuestions(tok, round_id) == resp' = get_round_questions(tok, round_id) /\ ReadOnly

(***************************************************************************)
(* SpecGet: reading events and rounds.  ann owns an event with two rounds, *)
(* the first with a question, and bob owns an event with one round; both   *)
(* soft-delete events and rounds and read them back.                       *)
(***************************************************************************)
InitGet ==
    /\ TwoUsers
    /\ events = <<EventRow("Quiz", 1, "draft", None, NULL),
                  EventRow("Gala", 2, "draft", None, NULL)>>
    /\ rounds = <<RoundRow(1, 1), RoundRow(1, 2), RoundRow(2, 1)>>
    /\ round_questions = {RoundQuestionRow(1, 1, 1, NULL)}
    /\ cr = [r \in Reqs |-> Idle]
    /\ resp = Response(0, NoBody)

NextGet ==
    \/ \E tok \in Presented, event_id \in 1 .. Len(events) + 1 : DeleteEvent(tok, event_id)
    \/ \E tok \in Presented, round_id \in 1 .. Len(rounds) + 1 : DeleteRound(tok, round_id)
    \/ \E tok \in Presented : GetMyEvents(tok)
    \/ \E tok \in Presented, event_id \in 1 .. Len(events) + 1 : GetEvent(tok, event_id)
    \/ \E tok \in Presented, round_id \in 1 .. Len(rounds) + 1 : GetRound(tok, round_id)
    \/ \E tok \in Presented, round_id \in 1 .. Len(rounds) + 1 :
          GetRoundQuestions(tok, round_id)

SpecGet == InitGet /\ [][NextGet]_vars

\* the token of the owner of the event
OwnerOf(tok, event_id) ==
    /\ get_user_from_token(tok) # NULL
    /\ events[event_id].user_id = get_user_from_token(tok)

\* C11: once an event or a round is soft-deleted, GET /api/events/{id},
\* GET /rounds/{id} and GET /rounds/{id}/questions do not return it (do not
\* answer 200) to its owner.
C11_SoftDeletedNotReturnedByGet ==
    \A tok \in Presented :
        /\ \A event_id \in EventIds :
              (OwnerOf(tok, event_id) /\ events[event_id].is_deleted)
                  => get_event(tok, event_id).status # 200
        /\ \A round_id \in RoundIds :
              (OwnerOf(tok, rounds[round_id].event_id) /\ rounds[round_id].is_deleted)
                  => /\ get_round(tok, round_id).status # 200
                     /\ get_round_questions(tok, round_id).status # 200

\* ann's event is soft-deleted and she was just returned it by GET
\* /api/events/1
C11_Witness ==
    /\ events[1].is_deleted
    /\ resp.status = 200
    /\ resp.body.kind = "event"
    /\ resp.body.id = 1


(***************************************************************************)
(* More properties of sessions (SpecSession).                              *)
(***************************************************************************)
\* C12: a session row leaves the table only in the step of a successful
\* logout that presented its token; no row is modified (a row that appears
\* carries a token no row carried); and a request the guard rejects (401) or
\* lets through to a handler that only reads (get_current_user) leaves the
\* table, its expired rows included, as it was.
C12_OnlyLogoutRemovesSessions ==
    [][/\ \A s \in sessions \ sessions' :
             /\ resp' = Response(200, Message("Logged out successfully"))
             /\ s.session_token \in loggedOut' \ loggedOut
       /\ \A s \in sessions' \ sessions :
             \A old \in sessions : old.session_token # s.session_token
       /\ (resp'.status = 401 \/ resp'.body.kind = "user") => sessions' = sessions]_vars

\* an expired session row is still stored after a request was rejected and
\* after another token was logged out
C12_Witness ==
    /\ resp.status = 401
    /\ loggedOut # {}
    /\ \E s \in sessions : s.expires_at < now


(***************************************************************************)
(* SpecLogin: registration followed by login.  As SpecRegister, a day      *)
(* after the server started, so that a last_login that was set differs     *)
(* from one that was not.                                                  *)
(***************************************************************************)
InitLogin ==
    /\ users = <<>>
    /\ sessions = {}
    /\ now = 1
    /\ nextToken = 1
    /\ loggedOut = {}
    /\ reg = [r \in RegReqs |-> Idle]
    /\ EmptyCatalog
    /\ events = <<>>
    /\ rounds = <<>>
    /\ round_questions = {}
    /\ cr = [r \in Reqs |-> Idle]
    /\ resp = Response(0, NoBody)

SpecLogin == InitLogin /\ [][NextRegister]_vars

\* C13: a registration that succeeds (201) returns the id of the user row it
\* inserted; and for every registered user, a login with the user's email and
\* password is answered 200 with a new token and the user's id, adds exactly
\* the session row of that token expiring 7 days after the login, and sets
\* the user's last_login to the instant of the login, changing nothing else.
C13_LoginAfterRegister ==
    /\ [][(resp' # resp /\ resp'.status = 201) =>
            \E r \in RegReqs :
                /\ reg[r].pc = "user"
                /\ reg'[r] = Idle
                /\ resp'.body.kind = "session"
                /\ resp'.body.id = reg[r].user_id
                /\ resp'.body.id \in DOMAIN users']_vars
    /\ [](\A u \in UserIds :
            login([email |-> users[u].email, password |-> "pw"]) =
                [status |-> 200,
                 body |-> SessionBody(nextToken, u),
                 users |-> [users EXCEPT ![u].last_login = now],
                 sessions |-> sessions \cup {SessionRow(u, nextToken, now + SESSION_DAYS)},
                 nextToken |-> nextToken + 1])
    /\ [](\A s \in sessions : s.session_token < nextToken)

\* ann registered and then logged in: the login returned her id, she holds the
\* session of the registration and the session of the login, and last_login
\* is set
C13_Witness ==
    /\ resp = Response(200, SessionBody(2, 1))
    /\ SessionRow(1, 1, now + SESSION_DAYS) \in sessions
    /\ SessionRow(1, 2, now + SESSION_DAYS) \in sessions
    /\ users[1].last_login = now


\* ----------------------------------------------------------------------
\* POST /check-answer (trivia/main.py, check_answer) and the score of
\* fuzzywuzzy's fuzz.ratio it calls.
\*
\* A text is the sequence of its characters. fuzz.ratio is library code: it
\* answers 100 for two equal texts, 0 when one of them is empty, and
\* otherwise int(round(100 * SequenceMatcher(None, s1, s2).ratio())), where
\* SequenceMatcher is python-Levenshtein's StringMatcher when that package
\* is installed and difflib's otherwise. The repository pins neither, so
\* the variable matcher holds whichever the installation has.
\* ----------------------------------------------------------------------

CORRECT_THRESHOLD == 80

Matchers == {"difflib", "Levenshtein"}

Upper == <<"A", "B", "C", "D", "E", "F", "G", "H", "I", "J", "K", "L", "M",
           "N", "O", "P", "Q", "R", "S", "T", "U", "V", "W", "X", "Y", "Z">>

Lower == <<"a", "b", "c", "d", "e", "f", "g", "h", "i", "j", "k", "l", "m",
           "n", "o", "p", "q", "r", "s", "t", "u", "v", "w", "x", "y", "z">>

\* str.lower() on one character: a capital becomes its small letter, every
\* other character stays.
LowerChar(c) ==
    IF \E i \in DOMAIN Upper : Upper[i] = c
    THEN Lower[CHOOSE i \in DOMAIN Upper : Upper[i] = c]
    ELSE c

\* mutant of lower: the texts are compared as they were written
lower_AsWritten(s) == s

lower(s) == [i \in DOMAIN s |-> LowerChar(s[i])]

Max2(x, y) == IF x >= y THEN x ELSE y

\* the length of the block a[i..] = b[j..] inside a[..ahi], b[..bhi]
RECURSIVE BlockLen(_, _, _, _, _, _)
BlockLen(a, b, i, j, ahi, bhi) ==
    IF i > ahi \/ j > bhi THEN 0
    ELSE IF a[i] # b[j] THEN 0
    ELSE 1 + BlockLen(a, b, i + 1, j + 1, ahi, bhi)

\* difflib.SequenceMatcher.find_longest_match without junk: the longest
\* block common to a[alo..ahi] and b[blo..bhi]; of the longest ones the one
\* that starts earliest in a, and of those the one that starts earliest in b.
find_longest_match(a, b, alo, ahi, blo, bhi) ==
    LET Starts == (alo..ahi) \X (blo..bhi)
        size == Max({0} \cup {BlockLen(a, b, p[1], p[2], ahi, bhi) : p \in Starts})
        Best == {p \in Starts : BlockLen(a, b, p[1], p[2], ahi, bhi) = size}
        i == Max({0 - n : n \in {p[1] : p \in Best}})
        besti == 0 - i
        bestj == 0 - Max({0 - p[2] : p \in {q \in Best : q[1] = besti}})
    IN  IF size = 0 THEN [i |-> alo, j |-> blo, size |-> 0]
        ELSE [i |-> besti, j |-> bestj, size |-> size]

\* difflib.SequenceMatcher.get_matching_blocks, summed: the longest block,
\* then the same to its left and to its right.
RECURSIVE matching_blocks(_, _, _, _, _, _)
matching_blocks(a, b, alo, ahi, blo, bhi) ==
    IF alo > ahi \/ blo > bhi THEN 0
    ELSE LET m == find_longest_match(a, b, alo, ahi, blo, bhi) IN
         IF m.size = 0 THEN 0
         ELSE m.size
              + matching_blocks(a, b, alo, m.i - 1, blo, m.j - 1)
              + matching_blocks(a, b, m.i + m.size, ahi, m.j + m.size, bhi)

\* The longest common subsequence of a[1..i] and b[1..j]. The distance
\* python-Levenshtein's ratio uses charges 1 for an insertion or a deletion
\* and 2 for a substitution, so it is len(a) + len(b) - 2 * lcs.
RECURSIVE lcs(_, _, _, _)
lcs(a, b, i, j) ==
    IF i = 0 \/ j = 0 THEN 0
    ELSE IF a[i] = b[j] THEN 1 + lcs(a, b, i - 1, j - 1)
    ELSE Max2(lcs(a, b, i - 1, j), lcs(a, b, i, j - 1))

\* The characters the matcher pairs up, M in ratio() = 2.0 * M / T.
Matched(s1, s2, m) ==
    IF m = "difflib" THEN matching_blocks(s1, s2, 1, Len(s1), 1, Len(s2))
    ELSE lcs(s1, s2, Len(s1), Len(s2))

\* int(round(n / d)) of Python 3: to the nearest integer, a half to the
\* even neighbour.
intr(n, d) ==
    LET q == n \div d
        r == n % d
    IN  IF 2 * r < d THEN q
        ELSE IF 2 * r > d THEN q + 1
        ELSE IF q % 2 = 0 THEN q ELSE q + 1

\* fuzzywuzzy.fuzz.ratio with its decorators check_for_equivalence and
\* check_empty_string.
ratio(s1, s2, m) ==
    IF s1 = s2 THEN 100
    ELSE IF Len(s1) = 0 \/ Len(s2) = 0 THEN 0
    ELSE intr(200 * Matched(s1, s2, m), Len(s1) + Len(s2))

TriviaQuestion(answer, category_id, difficulty) ==
    [answer |-> answer, category_id |-> category_id, difficulty |-> difficulty]

\* the row the bulk import stores: its difficulty is 'medium'
TriviaQuestionRow(answer, category_id) ==
    TriviaQuestion(answer, category_id, "medium")

CheckBody(is_correct, score, correct_answer) ==
    [kind |-> "check", correct |-> is_correct, score |-> score,
     correct_answer |-> correct_answer]

\* mutant of is_correct: only a perfect score is correct
is_correct_Perfect(score) == score >= 100

is_correct(score) == score >= CORRECT_THRESHOLD

\* check_answer: the body is refused when it is empty or lacks one of the
\* two keys; the question is looked up by its primary key; the two texts
\* are lower-cased and scored.
check_answer(data) ==
    IF DOMAIN data = {} \/ "answer" \notin DOMAIN data
                        \/ "question_id" \notin DOMAIN data
    THEN Response(400, NoBody)
    ELSE IF data.question_id \notin DOMAIN trivia_questions
    THEN Response(404, NoBody)
    ELSE LET correct_answer == trivia_questions[data.question_id].answer
             score == ratio(lower(data.answer), lower(correct_answer), matcher)
         IN  Response(200, CheckBody(is_correct(score), score, correct_answer))

CheckAnswer(data) ==
    /\ resp' = Response(check_answer(data).status, check_answer(data).body)
    /\ UNCHANGED <<users, sessions, events, rounds, round_questions, now,
                   nextToken, cr, reg, loggedOut, catalogVars,
          user_generated_questions>>

\* The texts of the stored and of the submitted answers.
Napoleon == <<"N", "a", "p", "o", "l", "e", "o", "n">>

Napolean == <<"N", "a", "p", "o", "l", "e", "a", "n">>

NAPOLEON == <<"N", "A", "P", "O", "L", "E", "O", "N">>

New_York == <<"N", "e", "w", " ", "Y", "o", "r", "k">>

york_new == <<"y", "o", "r", "k", " ", "n", "e", "w">>

aaaaaaaa == <<"a", "a", "a", "a", "a", "a", "a", "a">>

aaabaaaa == <<"a", "a", "a", "b", "a", "a", "a", "a">>

abaaaaaa == <<"a", "b", "a", "a", "a", "a", "a", "a">>

abcdefgh == <<"a", "b", "c", "d", "e", "f", "g", "h">>

abcdefgx == <<"a", "b", "c", "d", "e", "f", "g", "x">>

Paris == <<"P", "a", "r", "i", "s">>

PARIS == <<"P", "A", "R", "I", "S">>

Pariz == <<"P", "a", "r", "i", "z">>

xyz == <<"x", "y", "z">>

a_b == <<"a", " ", "b">>

b_a == <<"b", " ", "a">>

EmptyText == <<>>

StoredAnswers == {Napoleon, New_York, aaaaaaaa, abcdefgh, Paris, a_b, xyz, EmptyText}

SubmittedAnswers == {Napoleon, Napolean, NAPOLEON, york_new, aaabaaaa, abaaaaaa,
                     abcdefgx, PARIS, Pariz, xyz, b_a, EmptyText}

\* The bodies of POST /check-answer: both keys, one key, none. Question 1 is
\* stored, question 2 is not, and 0 is the empty question_id.
CheckBodies ==
    {[answer |-> a, question_id |-> q] : a \in SubmittedAnswers, q \in 0..2}
    \cup {[answer |-> a] : a \in SubmittedAnswers}
    \cup {[question_id |-> q] : q \in 0..2}
    \cup {EmptyBody}

\* One preset question is stored, with any of the answers; the installation
\* has one of the two matchers.
InitAnswer ==
    /\ users = <<>>
    /\ sessions = {}
    /\ now = 0
    /\ nextToken = 1
    /\ loggedOut = {}
    /\ reg = [r \in RegReqs |-> Idle]
    /\ events = <<>>
    /\ rounds = <<>>
    /\ round_questions = {}
    /\ cr = [r \in Reqs |-> Idle]
    /\ resp = Response(0, NoBody)
    /\ trivia_questions \in {<<TriviaQuestionRow(a, 1)>> : a \in StoredAnswers}
    /\ categories = {}
    /\ category_seq = 0
    /\ category_cache = <<>>
    /\ imp = Idle
    /\ matcher \in Matchers
    /\ user_generated_questions = <<>>

NextAnswer == \E data \in CheckBodies : CheckAnswer(data)

SpecAnswer == InitAnswer /\ [][NextAnswer]_vars

\* The requests that reach the scoring: both keys and a stored question.
Scored == {d \in CheckBodies : /\ DOMAIN d = {"answer", "question_id"}
                               /\ d.question_id \in DOMAIN trivia_questions}

\* The two texts are the same once the capitals are made small.
EqualIgnoringCase(a, b) ==
    /\ Len(a) = Len(b)
    /\ \A i \in DOMAIN a : LowerChar(a[i]) = LowerChar(b[i])

\* C14: two answers that are equal once both are lower-cased score 100 and
\* are correct; for every pair of answers the score is an integer from 0 to
\* 100 and the answer is correct exactly when the score is at least 80.
C14_EqualScores100 ==
    \A d \in Scored :
        LET r == check_answer(d)
            stored == trivia_questions[d.question_id].answer
        IN  /\ r.status = 200
            /\ r.body.kind = "check"
            /\ r.body.score \in 0..100
            /\ r.body.correct = (r.body.score >= 80)
            /\ EqualIgnoringCase(d.answer, stored)
                  => r.body.score = 100 /\ r.body.correct

\* NAPOLEON, or Napoleon itself, was checked against the stored Napoleon.
C14_Witness ==
    /\ trivia_questions[1].answer = Napoleon
    /\ resp = Response(200, CheckBody(TRUE, 100, Napoleon))


\* No character of a is, capitals made small, a character of b.
NoCommonCharacter(a, b) ==
    \A i \in DOMAIN a : \A j \in DOMAIN b : LowerChar(a[i]) # LowerChar(b[j])

\* C15: a submitted answer and a stored answer that share no character
\* after lower-casing are scored below 80 and the answer is not correct.
C15_DisjointScoresLow ==
    \A d \in Scored :
        NoCommonCharacter(d.answer, trivia_questions[d.question_id].answer)
            => /\ check_answer(d).body.score < 80
               /\ ~check_answer(d).body.correct

\* The same for the pairs in which at least one text has a character: the
\* score is 0.
C15_DisjointNonEmptyScoresZero ==
    \A d \in Scored :
        LET stored == trivia_questions[d.question_id].answer IN
        (NoCommonCharacter(d.answer, stored) /\ (d.answer # <<>> \/ stored # <<>>))
            => check_answer(d).body = CheckBody(FALSE, 0, stored)

\* The empty answer was checked against a stored empty answer and found
\* correct with the score 100.
C15_Witness ==
    /\ trivia_questions[1].answer = EmptyText
    /\ resp = Response(200, CheckBody(TRUE, 100, EmptyText))


\* The words of a text: its parts between the blanks.
RECURSIVE Words(_)
Words(s) ==
    IF s = <<>> THEN << <<>> >>
    ELSE LET rest == Words(Tail(s)) IN
         IF Head(s) = " " THEN << <<>> >> \o rest
         ELSE << <<LowerChar(Head(s))>> \o Head(rest) >> \o Tail(rest)

\* b has the words of a, two or more, in another order.
Reordered(a, b) ==
    LET wa == Words(a)
        wb == Words(b)
    IN  /\ Len(wa) >= 2
        /\ Len(wa) = Len(wb)
        /\ wa # wb
        /\ \E p \in [DOMAIN wa -> DOMAIN wa] :
              /\ \A i, j \in DOMAIN wa : p[i] = p[j] => i = j
              /\ \A i \in DOMAIN wa : wb[i] = wa[p[i]]

\* C16: a submitted answer made of the words of a short stored answer in
\* another order is scored at least 80 and is correct.
C16_ReorderedWordsCorrect ==
    \A d \in Scored :
        Reordered(trivia_questions[d.question_id].answer, d.answer)
            => /\ check_answer(d).body.score >= 80
               /\ check_answer(d).body.correct

\* "york new" was checked against the stored "New York": score 50, not
\* correct.
C16_Witness ==
    /\ trivia_questions[1].answer = New_York
    /\ resp = Response(200, CheckBody(FALSE, 50, New_York))


\* b is a, a text of eight characters, with one character replaced.
OneSubstitution(a, b) ==
    /\ Len(a) = 8
    /\ Len(b) = 8
    /\ Cardinality({i \in 1..8 : LowerChar(a[i]) # LowerChar(b[i])}) = 1

\* C17: a submitted answer that is the stored answer of eight characters
\* with one character replaced, as Napolean for Napoleon, is scored at
\* least 80 and returned as correct together with the stored answer.
C17_OneSubstitutionCorrect ==
    \A d \in Scored :
        LET stored == trivia_questions[d.question_id].answer IN
        OneSubstitution(stored, d.answer)
            => /\ check_answer(d).status = 200
               /\ check_answer(d).body.score >= 80
               /\ check_answer(d).body.correct
               /\ check_answer(d).body.correct_answer = stored

\* The pair of the example is scored 88 by both matchers, and every such
\* pair is scored 88 by the matcher of python-Levenshtein.
C17_NapoleanScores88 ==
    \A d \in Scored :
        LET stored == trivia_questions[d.question_id].answer IN
        (OneSubstitution(stored, d.answer)
            /\ (matcher = "Levenshtein" \/ stored = Napoleon))
            => check_answer(d).body = CheckBody(TRUE, 88, stored)

\* With difflib's matcher, aaabaaaa was checked against the stored aaaaaaaa:
\* score 50, not correct.
C17_Witness ==
    /\ matcher = "difflib"
    /\ trivia_questions[1].answer = aaaaaaaa
    /\ resp = Response(200, CheckBody(FALSE, 50, aaaaaaaa))


\* The answer or the question_id of the body is missing or empty.
MissingOrEmpty(d) ==
    \/ "answer" \notin DOMAIN d
    \/ "question_id" \notin DOMAIN d
    \/ d.answer = EmptyText
    \/ d.question_id = 0

\* C18: a check-answer request whose answer or question_id is missing or
\* empty is answered 400; no question is looked up and no score computed.
C18_MissingOrEmptyAnswered400 ==
    \A d \in CheckBodies :
        MissingOrEmpty(d) => check_answer(d) = Response(400, NoBody)

\* The requests the code refuses: those that lack a key.
C18_MissingKeyAnswered400 ==
    \A d \in CheckBodies :
        check_answer(d).status = 400
            <=> ("answer" \notin DOMAIN d \/ "question_id" \notin DOMAIN d)

\* The empty answer for question 1, whose answer is Paris, is looked up and
\* scored, and that response was given: 200 with score 0.
C18_Witness ==
    /\ trivia_questions[1].answer = Paris
    /\ check_answer([answer |-> EmptyText, question_id |-> 1])
          = Response(200, CheckBody(FALSE, 0, Paris))
    /\ resp = Response(200, CheckBody(FALSE, 0, Paris))


\* ----------------------------------------------------------------------
\* The bulk import (anki/import_misc.py): import_anki_data reads the rows
\* of a file inside one transaction, resolves the category of each row
\* with get_or_create_category, inserts the questions in bulk and commits.
\* An invocation that raises never commits: its inserts are rolled back,
\* while the sequence behind categories.id and the dict _category_cache of
\* the module keep what the invocation did to them.
\* ----------------------------------------------------------------------

MaxFileRows == 2
MaxQuestions == 3

Art == <<"A", "r", "t">>

art == <<"a", "r", "t">>

ART == <<"A", "R", "T">>

Sea == <<"S", "e", "a">>

CategoryNames == {Art, art, ART, Sea}

CategoryRow(id, name) == [id |-> id, name |-> name]

\* The invocation that runs is at the row imp.line of its file imp.rows.
\* A row of the file: the number of its columns, its answer and category.
FileRows == {[columns |-> n, answer |-> Paris, category |-> c] :
                n \in 6..8, c \in CategoryNames}

SeqsUpTo(S, n) == UNION {[1..k -> S] : k \in 1..n}

Files == SeqsUpTo(FileRows, MaxFileRows)

Running == imp.pc = "rows"

\* The rows of categories the cursor of the running invocation sees: the
\* committed ones and those its own transaction has inserted.
VisibleCategories == categories \cup imp.inserted

\* mutant of FetchOne: the SELECT finds no row
FetchOne_NoRow(category_name) == {NULL}

\* SELECT id FROM categories WHERE LOWER(name) = LOWER(%s); fetchone(): the
\* id of one of the rows that match, in no stated order, or nothing.
FetchOne(category_name) ==
    LET ids == {c.id : c \in {v \in VisibleCategories :
                                 lower(v.name) = lower(category_name)}}
    IN  IF ids = {} THEN {NULL} ELSE ids

\* Category.name is unique, as written.
uq_categories_name(rows) ==
    \A c1, c2 \in rows : c1.name = c2.name => c1.id = c2.id

Cached(cache, cache_key, id) ==
    [k \in DOMAIN cache \cup {cache_key} |-> IF k = cache_key THEN id ELSE cache[k]]

\* get_or_create_category, result being what fetchone() returns: the id
\* returned, and the dict, the inserted rows and the sequence afterwards.
get_or_create_category(category_name, result) ==
    LET cache_key == lower(category_name)
        category_id == category_seq + 1
    IN  IF cache_key \in DOMAIN category_cache
        THEN [raised |-> FALSE, id |-> category_cache[cache_key],
              category_cache |-> category_cache,
              inserted |-> imp.inserted, category_seq |-> category_seq]
        ELSE IF result # NULL
        THEN [raised |-> FALSE, id |-> result,
              category_cache |-> Cached(category_cache, cache_key, result),
              inserted |-> imp.inserted, category_seq |-> category_seq]
        ELSE IF ~uq_categories_name(VisibleCategories
                                    \cup {CategoryRow(category_id, category_name)})
        THEN [raised |-> TRUE, id |-> NULL, category_cache |-> category_cache,
              inserted |-> imp.inserted, category_seq |-> category_id]
        ELSE [raised |-> FALSE, id |-> category_id,
              category_cache |-> Cached(category_cache, cache_key, category_id),
              inserted |-> imp.inserted \cup {CategoryRow(category_id, category_name)},
              category_seq |-> category_id]

serverVars == <<users, sessions, events, rounds, round_questions, now,
                nextToken, cr, reg, resp, loggedOut,
                user_generated_questions>>

\* import_anki_data is called with a file: connect, open a cursor.
ImportBegin(file) ==
    /\ imp = Idle
    /\ Len(trivia_questions) + Len(file) <= MaxQuestions
    /\ imp' = [pc |-> "rows", rows |-> file, line |-> 1, inserted |-> {},
               questions_to_insert |-> <<>>]
    /\ UNCHANGED <<serverVars, trivia_questions, categories, category_seq,
                   category_cache, matcher>>

\* One turn of the loop over the rows: a row of fewer than seven columns is
\* skipped, a row of more than seven raises at the unpacking and ends the
\* invocation, a row of seven has its category resolved and its question
\* put on the list.
ImportRow ==
    /\ Running
    /\ imp.line <= Len(imp.rows)
    /\ LET row == imp.rows[imp.line] IN
       IF row.columns < 7
       THEN /\ imp' = [imp EXCEPT !.line = imp.line + 1]
            /\ UNCHANGED <<category_cache, category_seq>>
       ELSE IF row.columns > 7
       THEN /\ imp' = Idle
            /\ UNCHANGED <<category_cache, category_seq>>
       ELSE \E result \in FetchOne(row.category) :
            LET o == get_or_create_category(row.category, result) IN
            /\ category_cache' = o.category_cache
            /\ category_seq' = o.category_seq
            /\ imp' = IF o.raised THEN Idle
                      ELSE [imp EXCEPT
                              !.line = imp.line + 1,
                              !.inserted = o.inserted,
                              !.questions_to_insert =
                                  Append(imp.questions_to_insert,
                                         TriviaQuestionRow(row.answer, o.id))]
    /\ UNCHANGED <<serverVars, trivia_questions, categories, matcher>>

\* trivia_questions.category_id references categories.id
fk_trivia_questions_category(questions, rows) ==
    \A i \in DOMAIN questions : \E c \in rows : c.id = questions[i].category_id

\* After the last row: the bulk insert of the questions and the commit. The
\* insert raises when a question's category is no row the transaction sees,
\* and the invocation ends without a commit.
ImportCommit ==
    /\ Running
    /\ imp.line > Len(imp.rows)
    /\ IF fk_trivia_questions_category(imp.questions_to_insert, VisibleCategories)
       THEN /\ trivia_questions' = trivia_questions \o imp.questions_to_insert
            /\ categories' = VisibleCategories
       ELSE UNCHANGED <<trivia_questions, categories>>
    /\ imp' = Idle
    /\ UNCHANGED <<serverVars, category_seq, category_cache, matcher>>

\* The process is started: nothing is cached, no import runs; the table
\* categories is empty or holds Art, or Art and art, which the unique name
\* allows.
InitImport ==
    /\ users = <<>>
    /\ sessions = {}
    /\ now = 0
    /\ nextToken = 1
    /\ loggedOut = {}
    /\ reg = [r \in RegReqs |-> Idle]
    /\ events = <<>>
    /\ rounds = <<>>
    /\ round_questions = {}
    /\ cr = [r \in Reqs |-> Idle]
    /\ resp = Response(0, NoBody)
    /\ trivia_questions = <<>>
    /\ \E n \in 0..2 :
          /\ categories = {CategoryRow(i, <<Art, art>>[i]) : i \in 1..n}
          /\ category_seq = n
    /\ category_cache = <<>>
    /\ imp = Idle
    /\ matcher = "difflib"
    /\ user_generated_questions = <<>>

NextImport ==
    \/ \E file \in Files : ImportBegin(file)
    \/ ImportRow
    \/ ImportCommit

SpecImport == InitImport /\ [][NextImport]_vars


\* A step of the loop that resolved the category of a row.
Resolved ==
    /\ Running
    /\ imp'.pc = "rows"
    /\ Len(imp'.questions_to_insert) = Len(imp.questions_to_insert) + 1

\* C19: within one import run, names that are equal ignoring case resolve
\* to the same category id (the id a call returns is the one the dict then
\* holds for the lower-cased name, and the dict never changes an entry), a
\* name that a row of categories has already, ignoring case, is not
\* inserted again, and the run creates at most one row per lower-cased name.
C19_OneCategoryPerLowerCasedName ==
    [][/\ Resolved =>
            LET category_name == imp.rows[imp.line].category
                id == imp'.questions_to_insert[Len(imp'.questions_to_insert)].category_id
            IN  /\ lower(category_name) \in DOMAIN category_cache'
                /\ category_cache'[lower(category_name)] = id
                /\ \A c \in imp'.inserted \ imp.inserted :
                      /\ c = CategoryRow(id, category_name)
                      /\ \A v \in VisibleCategories :
                            ~EqualIgnoringCase(v.name, category_name)
       /\ \A k \in DOMAIN category_cache :
             k \in DOMAIN category_cache' /\ category_cache'[k] = category_cache[k]
       /\ (Running /\ imp'.pc = "rows") =>
             \A c1, c2 \in imp'.inserted :
                EqualIgnoringCase(c1.name, c2.name) => c1 = c2
      ]_vars

\* The file has the rows Art and ART; both were resolved to the id 1 of the
\* one row the run inserted for them.
C19_Witness ==
    /\ Running
    /\ categories = {}
    /\ imp.line = 3
    /\ imp.rows[1].category = Art
    /\ imp.rows[2].category = ART
    /\ imp.inserted = {CategoryRow(1, Art)}
    /\ imp.questions_to_insert = <<TriviaQuestionRow(Paris, 1), TriviaQuestionRow(Paris, 1)>>


\* C20: every invocation of the import starts with an empty category
\* cache, so the id a call of get_or_create_category returns is never one
\* that an earlier invocation of the process cached: it is the id of a row
\* of categories that is committed or that this invocation inserted.
C20_CacheRebuiltPerInvocation ==
    [][/\ (imp = Idle /\ imp'.pc = "rows") => category_cache' = <<>>
       /\ Resolved =>
             \E c \in categories \cup imp'.inserted :
                c.id = imp'.questions_to_insert[Len(imp'.questions_to_insert)].category_id
      ]_vars

\* An invocation has put a question on its list under category 1, which the
\* dict held from an earlier invocation that raised before its commit: no
\* row of categories, committed or inserted by this invocation, has the id.
C20_Witness ==
    /\ Running
    /\ categories = {}
    /\ imp.inserted = {}
    /\ imp.questions_to_insert = <<TriviaQuestionRow(Paris, 1)>>
    /\ art \in DOMAIN category_cache
    /\ category_cache[art] = 1


\* ----------------------------------------------------------------------
\* The handlers of the question and category blueprints
\* (routes/question/question_routes.py, routes/category/category_routes.py).
\* The order of a list in a response is not modelled: a list of rows is
\* the set of their ids together with its length.
\* ----------------------------------------------------------------------

DEFAULT_COUNT == 10
MAX_COUNT == 50
DEFAULT_MIN_QUESTIONS == 80

Difficulties == {"easy", "medium", "hard"}

PresetQuestionBody(id) == [kind |-> "question", id |-> id]

CategoriesBody(ids) == [kind |-> "categories", ids |-> ids]

CategoryQuestionsBody(ids, n) == [kind |-> "category_questions", ids |-> ids, n |-> n]

CreatedBody(id) == [kind |-> "created", id |-> id]

CategoryIds == {c.id : c \in categories}

\* GET /question: the questions the filters leave. A filter that is absent,
\* empty or 0 does not apply.
Filtered(difficulty, category_id) ==
    {q \in DOMAIN trivia_questions :
        /\ difficulty # None => trivia_questions[q].difficulty = difficulty
        /\ category_id # NULL => trivia_questions[q].category_id = category_id}

\* get_question: one of the filtered questions, chosen by ORDER BY random()
\* LIMIT 1 (q is that choice), or 404 when there is none.
get_question(difficulty, category_id, q) ==
    IF Filtered(difficulty, category_id) = {} THEN Response(404, NoBody)
    ELSE Response(200, PresetQuestionBody(q))

GetQuestion(difficulty, category_id) ==
    /\ \E q \in Filtered(difficulty, category_id) \cup {NULL} :
          /\ q = NULL <=> Filtered(difficulty, category_id) = {}
          /\ resp' = get_question(difficulty, category_id, q)
    /\ ReadOnly

get_categories == Response(200, CategoriesBody(CategoryIds))

GetCategories ==
    /\ resp' = get_categories
    /\ ReadOnly

QuestionsOf(category_id) ==
    {q \in DOMAIN trivia_questions : trivia_questions[q].category_id = category_id}

get_active_categories(min_questions) ==
    Response(200, CategoriesBody({c \in CategoryIds :
                                     Cardinality(QuestionsOf(c)) >= min_questions}))

GetActiveCategories(min_questions) ==
    /\ resp' = get_active_categories(min_questions)
    /\ ReadOnly

Min2(x, y) == IF x <= y THEN x ELSE y

\* The sets of k elements of Q, or Q itself when it has no more than k.
RECURSIVE Samples(_, _)
Samples(Q, k) ==
    IF k = 0 THEN {{}}
    ELSE IF Cardinality(Q) <= k THEN {Q}
    ELSE LET x == CHOOSE x \in Q : TRUE IN
         Samples(Q \ {x}, k) \cup {S \cup {x} : S \in Samples(Q \ {x}, k - 1)}

\* mutant of Limit: the count of the request is not capped
Limit_Uncapped(args) == Get(args, "count", DEFAULT_COUNT)

\* count = min(request.args.get('count', default=10, type=int), 50)
Limit(args) == Min2(Get(args, "count", DEFAULT_COUNT), MAX_COUNT)

\* get_category_questions, questions being the rows ORDER BY random() LIMIT
\* count yields. A negative LIMIT is an error of the database, which the
\* handler does not catch.
get_category_questions(category_id, args, questions) ==
    IF category_id \notin CategoryIds THEN Response(404, NoBody)
    ELSE IF Limit(args) < 0 THEN Response(500, NoBody)
    ELSE IF questions = {} THEN Response(404, NoBody)
    ELSE Response(200, CategoryQuestionsBody(questions, Cardinality(questions)))

\* what SELECT ... WHERE category_id = :id ORDER BY random() LIMIT :count
\* can yield
RandomQuestions(category_id, count) ==
    IF count < 0 THEN {{}} ELSE Samples(QuestionsOf(category_id), count)

GetCategoryQuestions(category_id, args) ==
    /\ \E questions \in RandomQuestions(category_id, Limit(args)) :
          resp' = get_category_questions(category_id, args, questions)
    /\ ReadOnly

\* mutant of UserGeneratedQuestionRow: the row is of the class TriviaQuestion
UserGeneratedQuestionRow_Preset(question, answer, category_id, difficulty, creator) ==
    [tablename |-> "trivia_questions", question |-> question,
     answer |-> answer, category_id |-> category_id, difficulty |-> difficulty,
     created_by |-> creator, status |-> "active"]

UserGeneratedQuestionRow(question, answer, category_id, difficulty, creator) ==
    [tablename |-> "user_generated_questions", question |-> question,
     answer |-> answer, category_id |-> category_id, difficulty |-> difficulty,
     created_by |-> creator, status |-> "active"]

\* db.session.add(row); db.session.commit(): the row goes to the table of
\* its class.
session_add(row) ==
    [user_generated_questions |->
        IF row.tablename = "user_generated_questions"
        THEN Append(user_generated_questions, row) ELSE user_generated_questions,
     trivia_questions |->
        IF row.tablename = "trivia_questions"
        THEN Append(trivia_questions, row) ELSE trivia_questions]

NoWrite ==
    [user_generated_questions |-> user_generated_questions,
     trivia_questions |-> trivia_questions]

add_user_generated_question(tok, data) ==
    LET question == Get(data, "question", None)
        answer == Get(data, "answer", None)
        category_id == Get(data, "category_id", NULL)
        difficulty == Get(data, "difficulty", None)
        created_by == Get(data, "created_by", NULL)
        Falsy(text) == text = None \/ text = ""
        new_q == UserGeneratedQuestionRow(question, answer, category_id,
                                          difficulty, created_by)
    IN  IF Unauthorized(tok)
        THEN [status |-> 401, body |-> NoBody, tables |-> NoWrite]
        ELSE IF DOMAIN data = {}
        THEN [status |-> 400, body |-> NoBody, tables |-> NoWrite]
        ELSE IF Falsy(question) \/ Falsy(answer) \/ Falsy(difficulty)
        THEN [status |-> 400, body |-> NoBody, tables |-> NoWrite]
        ELSE IF difficulty \notin Difficulties
        THEN [status |-> 400, body |-> NoBody, tables |-> NoWrite]
        ELSE IF category_id # NULL /\ category_id \notin CategoryIds
        THEN [status |-> 400, body |-> NoBody, tables |-> NoWrite]
        ELSE IF created_by # NULL /\ created_by \notin UserIds
        THEN [status |-> 400, body |-> NoBody, tables |-> NoWrite]
        ELSE [status |-> 201,
              body |-> CreatedBody(Len(user_generated_questions) + 1),
              tables |-> session_add(new_q)]

AddUserGeneratedQuestion(tok, data) ==
    /\ LET o == add_user_generated_question(tok, data) IN
          /\ user_generated_questions' = o.tables.user_generated_questions
          /\ trivia_questions' = o.tables.trivia_questions
          /\ resp' = Response(o.status, o.body)
    /\ UNCHANGED <<users, sessions, events, rounds, round_questions, now,
                   nextToken, cr, reg, loggedOut, categories, category_seq,
                   category_cache, imp, matcher>>

MaxUserQuestions == 2

\* bodies with the key added, one for each of the values
WithKey(bodies, key, values) ==
    {[k \in DOMAIN b \cup {key} |-> IF k = key THEN v ELSE b[k]] :
        b \in bodies, v \in values}

\* The bodies of POST /questions/user-generated: complete, with a difficulty
\* that is none of the three, without an answer, empty; with and without a
\* category_id and a created_by, of which 9 and 3 are ids of no row.
UserQuestionBodies ==
    LET Complete == {[question |-> "Q", answer |-> "A", difficulty |-> d] :
                        d \in {"easy", "extreme"}}
        WithCategory == Complete \cup WithKey(Complete, "category_id", {1, 9})
    IN  WithCategory \cup WithKey(WithCategory, "created_by", 1..3)
        \cup {[question |-> "Q", difficulty |-> "easy"], EmptyBody}

\* ann and bob are logged in; two categories and three preset questions
\* are stored.
InitQuestion ==
    /\ users = <<UserRow("ann", "a@x.com", "pw", 0), UserRow("bob", "b@x.com", "pw", 0)>>
    /\ sessions = {SessionRow(1, 1, SESSION_DAYS), SessionRow(2, 2, SESSION_DAYS)}
    /\ now = 0
    /\ nextToken = 3
    /\ loggedOut = {}
    /\ reg = [r \in RegReqs |-> Idle]
    /\ events = <<>>
    /\ rounds = <<>>
    /\ round_questions = {}
    /\ cr = [r \in Reqs |-> Idle]
    /\ resp = Response(0, NoBody)
    /\ trivia_questions = <<TriviaQuestion(Paris, 1, "easy"),
                            TriviaQuestion(Napoleon, 1, "medium"),
                            TriviaQuestion(Paris, 2, "hard")>>
    /\ categories = {CategoryRow(1, Art), CategoryRow(2, Sea)}
    /\ category_seq = 2
    /\ category_cache = <<>>
    /\ imp = Idle
    /\ matcher = "difflib"
    /\ user_generated_questions = <<>>

NextQuestion ==
    \/ \E difficulty \in {None, "easy", "hard"}, category_id \in 0..3 :
          GetQuestion(difficulty, category_id)
    \/ GetCategories
    \/ \E min_questions \in {1, 2, DEFAULT_MIN_QUESTIONS} :
          GetActiveCategories(min_questions)
    \/ \E category_id \in 1..3, args \in {EmptyBody, [count |-> 0], [count |-> 1]} :
          GetCategoryQuestions(category_id, args)
    \/ \E tok \in {NoHeader} \cup Presented, data \in UserQuestionBodies :
          /\ Len(user_generated_questions) < MaxUserQuestions
          /\ AddUserGeneratedQuestion(tok, data)
    \/ \E data \in CheckBodies : CheckAnswer(data)

SpecQuestion == InitQuestion /\ [][NextQuestion]_vars

\* C21: no request inserts, updates or deletes a row of trivia_questions or
\* of categories: after every request the two tables are what they were.
C21_CatalogImmutableAtRequestTime ==
    [][trivia_questions' = trivia_questions /\ categories' = categories]_vars

\* A user-generated question has been added with 201, and the catalog is
\* the one the requests started from.
C21_Witness ==
    /\ resp = Response(201, CreatedBody(2))
    /\ Len(user_generated_questions) = 2
    /\ Len(trivia_questions) = 3
    /\ categories = {CategoryRow(1, Art), CategoryRow(2, Sea)}


MaxOtherQuestions == 2

\* The query strings of GET /category/{id}/questions: no count, or a count
\* below, at and above the cap.
CountArgs == {EmptyBody} \cup {[count |-> n] : n \in {0 - 1, 0, 1, MAX_COUNT, MAX_COUNT + 1, MAX_COUNT + 10}}

\* Category 1 has one question more than the cap, category 2 has a few,
\* category 3 has none, and no category has the id 4.
InitCategory ==
    /\ users = <<>>
    /\ sessions = {}
    /\ now = 0
    /\ nextToken = 1
    /\ loggedOut = {}
    /\ reg = [r \in RegReqs |-> Idle]
    /\ events = <<>>
    /\ rounds = <<>>
    /\ round_questions = {}
    /\ cr = [r \in Reqs |-> Idle]
    /\ resp = Response(0, NoBody)
    /\ trivia_questions =
          [q \in 1 .. MAX_COUNT + 1 + MaxOtherQuestions |->
              TriviaQuestion(Paris, IF q <= MAX_COUNT + 1 THEN 1 ELSE 2, "easy")]
    /\ categories = {CategoryRow(1, Art), CategoryRow(2, Sea), CategoryRow(3, art)}
    /\ category_seq = 3
    /\ category_cache = <<>>
    /\ imp = Idle
    /\ matcher = "difflib"
    /\ user_generated_questions = <<>>

\* The requests of the model: every category with every count, except that
\* the large category is not asked for the default count, whose samples are
\* too many to enumerate.
CategoryRequests ==
    {r \in (1..4) \X CountArgs : r[1] = 1 => r[2] # EmptyBody}

NextCategory ==
    \/ \E r \in CategoryRequests : GetCategoryQuestions(r[1], r[2])
    \/ GetCategories
    \/ \E min_questions \in {1, MaxOtherQuestions + 1, DEFAULT_MIN_QUESTIONS} :
          GetActiveCategories(min_questions)

SpecCategory == InitCategory /\ [][NextCategory]_vars

\* C22: GET /category/{id}/questions?count=N returns at most min(N, 50)
\* questions (N being 10 when no count is given), all distinct and all of
\* the category; it answers 404 when the category does not exist or has no
\* question.
C22_AtMostFiftyDistinctOfCategory ==
    \A r \in CategoryRequests :
        LET category_id == r[1]
            N == IF "count" \in DOMAIN r[2] THEN r[2].count ELSE 10
        IN  \A questions \in RandomQuestions(category_id, Limit(r[2])) :
               LET o == get_category_questions(category_id, r[2], questions) IN
               /\ o.status = 200 =>
                     /\ o.body.n <= N
                     /\ o.body.n <= 50
                     /\ Cardinality(o.body.ids) = o.body.n
                     /\ \A q \in o.body.ids :
                           /\ q \in DOMAIN trivia_questions
                           /\ trivia_questions[q].category_id = category_id
               /\ (category_id \notin CategoryIds \/ QuestionsOf(category_id) = {})
                     => o.status = 404

\* The same for the requests whose count is not negative (for those the
\* claim holds; fifty of the fifty-one questions of category 1 are returned
\* for the counts at and above the cap).
C22_NonNegativeCount ==
    \A r \in {c \in CategoryRequests : "count" \in DOMAIN c[2] => c[2].count >= 0} :
        LET category_id == r[1]
            N == IF "count" \in DOMAIN r[2] THEN r[2].count ELSE 10
        IN  \A questions \in RandomQuestions(category_id, Limit(r[2])) :
               LET o == get_category_questions(category_id, r[2], questions) IN
               /\ o.status \in {200, 404}
               /\ o.status = 200 =>
                     /\ o.body.n <= N
                     /\ o.body.n <= 50
                     /\ Cardinality(o.body.ids) = o.body.n
                     /\ \A q \in o.body.ids : trivia_questions[q].category_id = category_id
               /\ (category_id \notin CategoryIds \/ QuestionsOf(category_id) = {})
                     => o.status = 404
               /\ (category_id = 1 /\ N >= 50) => o.body.n = 50

\* Category 3 exists and has no question; asked for -1 questions of it, the
\* handler answered 500.
C22_Witness ==
    /\ 3 \in CategoryIds
    /\ QuestionsOf(3) = {}
    /\ get_category_questions(3, [count |-> 0 - 1], {}) = Response(500, NoBody)
    /\ resp = Response(500, NoBody)


\* ----------------------------------------------------------------------
\* POST /api/events with the fields of an event in the body.
\* ----------------------------------------------------------------------

MaxEvents == 2

\* Bodies with each of the four fields alone, with all of them, with the
\* date set to null, and with keys the handler does not read.
FieldBodies ==
    {[name |-> "Gala"], [description |-> "finals"], [status |-> "live"],
     [event_date |-> "2026-01-01"], [event_date |-> None],
     [name |-> "Gala", description |-> "finals", status |-> "live",
      event_date |-> "2026-01-01"],
     [name |-> "Gala", user_id |-> 2, is_deleted |-> FALSE]}

EventRequests == FieldBodies \cup WithId(FieldBodies, 1 .. Len(events) + 1)

\* ann and bob are logged in; ann has one event, soft-deleted or not.
InitUpdate ==
    /\ TwoUsers
    /\ \E is_deleted \in BOOLEAN :
          events = <<[EventRow("Quiz", 1, "draft", None, NULL)
                         EXCEPT !.is_deleted = is_deleted]>>
    /\ rounds = <<>>
    /\ round_questions = {}
    /\ cr = [r \in Reqs |-> Idle]
    /\ resp = Response(0, NoBody)

NextUpdate ==
    \/ \E tok \in Issued, data \in EventRequests :
          /\ (Get(data, "id", NULL) = NULL => Len(events) < MaxEvents)
          /\ CreateOrUpdateEvent(tok, data)
    \/ \E tok \in Issued : GetMyEvents(tok)

SpecUpdate == InitUpdate /\ [][NextUpdate]_vars

\* The value the body gives the field, as it is stored.
Stored(data, field) ==
    IF field # "event_date" THEN data[field]
    ELSE IF data[field] = None THEN NULL ELSE 1

\* C23: an update by the owner changes, of the event, only those of name,
\* description, status and event_date that are in the body, and leaves every
\* other field of it (user_id, is_deleted) and every other event as it was;
\* a request without an id creates exactly one event, of the requester, with
\* the status of the body or else 'draft'.
C23_UpdateChangesOnlyGivenFields ==
    \A tok \in Issued, data \in EventRequests :
        LET o == create_or_update_event(tok, data)
            id == Get(data, "id", NULL)
        IN  /\ o.status = 200 =>
                 /\ id \in EventIds
                 /\ events[id].user_id = get_user_from_token(tok)
                 /\ DOMAIN o.events = DOMAIN events
                 /\ \A e \in EventIds \ {id} : o.events[e] = events[e]
                 /\ DOMAIN o.events[id] = DOMAIN events[id]
                 /\ \A field \in DOMAIN events[id] :
                       o.events[id][field] =
                          IF field \in {"name", "description", "status", "event_date"}
                             /\ field \in DOMAIN data
                          THEN Stored(data, field)
                          ELSE events[id][field]
            /\ (id \in EventIds /\ events[id].user_id = get_user_from_token(tok))
                  => o.status = 200
            /\ o.status = 201 =>
                 /\ id = NULL
                 /\ Len(o.events) = Len(events) + 1
                 /\ \A e \in EventIds : o.events[e] = events[e]
                 /\ LET new == o.events[Len(events) + 1] IN
                       /\ new.user_id = get_user_from_token(tok)
                       /\ new.status = Get(data, "status", "draft")
                       /\ new.name = data.name
                       /\ ~new.is_deleted
            /\ (id = NULL /\ "name" \in DOMAIN data) => o.status = 201
            /\ o.status \notin {200, 201} => o.events = events

\* ann's soft-deleted event has been given a new status by her, and nothing
\* else of it has changed; bob's event was created beside it with the status
\* of his body.
C23_Witness ==
    /\ Len(events) = 2
    /\ events[1] = [EventRow("Quiz", 1, "live", None, NULL) EXCEPT !.is_deleted = TRUE]
    /\ events[2].user_id = 2
    /\ events[2].status = "live"
    /\ resp.status = 200


\* The token has no session row, or only an expired one.
InvalidOrExpired(tok) ==
    \A s \in sessions : s.session_token = tok => s.expires_at <= now

WithoutCache(category_name, result) ==
    IF result # NULL
    THEN [id |-> result, inserted |-> imp.inserted, category_seq |-> category_seq]
    ELSE [id |-> category_seq + 1,
          inserted |-> imp.inserted \cup {CategoryRow(category_seq + 1, category_name)},
          category_seq |-> category_seq + 1]

\* The call of this step returned the id, and left the table and the
\* sequence, that the call with the cache disabled does from the same table.
SameAsWithoutCache ==
    \E result \in FetchOne(imp.rows[imp.line].category) :
        LET u == WithoutCache(imp.rows[imp.line].category, result) IN
        /\ imp'.questions_to_insert[Len(imp'.questions_to_insert)].category_id = u.id
        /\ imp'.inserted = u.inserted
        /\ category_seq' = u.category_seq

\* C25: the cache changes nothing but the speed: every call of
\* get_or_create_category in an import run returns the id, and leaves the
\* table categories, that the same call without the cache does. As both
\* start the run from the same table, agreeing call by call they agree on
\* the whole sequence.
C25_CacheOnlyAffectsPerformance ==
    [][Resolved => SameAsWithoutCache]_vars

\* Every entry of the dict names a row the transaction sees.
CacheConsistent ==
    \A k \in DOMAIN category_cache :
        \E c \in VisibleCategories : c.id = category_cache[k] /\ lower(c.name) = k

\* The same for the calls made while every entry of the dict names a row
\* of the table, as in the first run of a process.
C25_ConsistentCacheOnlyAffectsPerformance ==
    [][(Resolved /\ CacheConsistent) => SameAsWithoutCache]_vars

\* The run resolved ART to the id 1 from the dict and inserted nothing,
\* while categories has no row: without the cache the call inserts ART
\* with the id 2.
C25_Witness ==
    /\ Running
    /\ imp.line = 2
    /\ imp.rows[1] = [columns |-> 7, answer |-> Paris, category |-> ART]
    /\ imp.questions_to_insert = <<TriviaQuestionRow(Paris, 1)>>
    /\ imp.inserted = {}
    /\ categories = {}
    /\ category_seq = 1


\* ----------------------------------------------------------------------
\* GET /api/events/{id} over events whose rounds carry questions.
\* ----------------------------------------------------------------------

NextView ==
    \/ \E tok \in Issued, round_id \in RoundIds : DeleteRound(tok, round_id)
    \/ \E tok \in Presented, event_id \in 1 .. Len(events) + 1 : GetEvent(tok, event_id)
    \/ \E round_id \in RoundIds, question_number \in 1 .. MaxRoundQuestions + 1 :
          /\ InsertRoundQuestion(round_id, question_number, 1, NULL)
          /\ Cardinality(round_questions') <= MaxRoundQuestions + 1

SpecView == InitGet /\ [][NextView]_vars

\* C26: GET /api/events/{id} by the owner returns exactly the rounds of the
\* event that are not soft-deleted, in ascending order of round_number, each
\* with its questions in ascending order of question_number.
C26_EventRoundsInOrder ==
    \A tok \in Issued, event_id \in EventIds :
        OwnerOf(tok, event_id) =>
            LET o == get_event(tok, event_id)
                listed == o.body.rounds
            IN  /\ o.status = 200
                /\ {listed[i].id : i \in DOMAIN listed}
                      = {r \in RoundIds : /\ rounds[r].event_id = event_id
                                          /\ ~rounds[r].is_deleted}
                /\ \A i, j \in DOMAIN listed :
                      i < j => listed[i].roundNumber < listed[j].roundNumber
                /\ \A i \in DOMAIN listed :
                      LET r == listed[i] IN
                      /\ r.roundNumber = rounds[r.id].round_number
                      /\ {r.questions[k] : k \in DOMAIN r.questions}
                            = {q.question_number :
                                  q \in {x \in round_questions : x.round_id = r.id}}
                      /\ \A k, l \in DOMAIN r.questions :
                            k < l => r.questions[k] < r.questions[l]

\* ann was returned her event with round 2 alone, round 1 being
\* soft-deleted, and with the two questions of round 2 in their order.
C26_Witness ==
    /\ rounds[1].is_deleted
    /\ resp = Response(200, EventBody(1, <<[id |-> 2, roundNumber |-> 2,
                                           questions |-> <<1, 2>>]>>))


(***************************************************************************)
(* Round numbers over the life of an event (Spec).                         *)
(***************************************************************************)
\* C27: a round_number is never reused within an event: no request removes a
\* round row or changes its event or its number, and every round that is
\* created gets a number strictly greater than the number of every round,
\* soft-deleted or not, that the event had.
C27_RoundNumberNeverReused ==
    [][/\ Len(rounds') >= Len(rounds)
       /\ \A i \in RoundIds :
             /\ rounds'[i].event_id = rounds[i].event_id
             /\ rounds'[i].round_number = rounds[i].round_number
       /\ \A i \in (DOMAIN rounds') \ RoundIds : \A j \in RoundIds :
             rounds[j].event_id = rounds'[i].event_id
                 => rounds'[i].round_number > rounds[j].round_number]_vars

\* the only round of event 1 was soft-deleted and the next create-round gave
\* the new round the number 2
C27_Witness ==
    /\ resp.status = 201
    /\ Len(rounds) = 2
    /\ rounds[1].event_id = 1 /\ rounds[1].is_deleted
    /\ rounds[2] = RoundRow(1, 2)


\* ----------------------------------------------------------------------
\* Soft deletion: DELETE of events and rounds among updates and creations.
\* ----------------------------------------------------------------------

MaxDeletableRounds == 2

\* Bodies of POST /api/events that update an event and carry is_deleted.
UndeleteRequests ==
    {[id |-> i, name |-> "Gala", is_deleted |-> FALSE] : i \in 1 .. Len(events) + 1}

NextDelete ==
    \/ \E tok \in Issued, data \in UndeleteRequests : CreateOrUpdateEvent(tok, data)
    \/ \E tok \in Presented, event_id \in 1 .. Len(events) + 1 : DeleteEvent(tok, event_id)
    \/ \E tok \in Issued, event_id \in 1 .. Len(events) :
          /\ Len(rounds) + Cardinality(InFlight) < MaxDeletableRounds
          /\ CreateRoundBegin(1, tok, event_id)
    \/ CreateRoundCommit(1)
    \/ \E tok \in Presented, round_id \in 1 .. Len(rounds) + 1 : DeleteRound(tok, round_id)

SpecDelete == InitUpdate /\ [][NextDelete]_vars

\* everything but the response
database ==
    <<users, sessions, events, rounds, round_questions, now, nextToken, cr, reg,
      loggedOut, catalogVars, user_generated_questions>>

\* C28: no request sets is_deleted of an event or of a round back to false,
\* and the owner's DELETE of an event or a round that is already soft-deleted
\* is answered with success and changes nothing.
C28_SoftDeletionMonotonicIdempotent ==
    [][/\ \A e \in EventIds : events[e].is_deleted =>
             e \in DOMAIN events' /\ events'[e].is_deleted
       /\ \A r \in RoundIds : rounds[r].is_deleted =>
             r \in DOMAIN rounds' /\ rounds'[r].is_deleted
       /\ \A tok \in Issued, e \in EventIds :
             (OwnerOf(tok, e) /\ events[e].is_deleted /\ DeleteEvent(tok, e))
                 => resp'.status = 200 /\ UNCHANGED database
       /\ \A tok \in Issued, r \in RoundIds :
             (/\ OwnerOf(tok, rounds[r].event_id)
              /\ rounds[r].is_deleted
              /\ DeleteRound(tok, r))
                 => resp'.status = 200 /\ UNCHANGED database]_vars

\* ann's event and its round are both soft-deleted after an update of the
\* event, and the last DELETE was answered with success
C28_Witness ==
    /\ Len(rounds) >= 1
    /\ rounds[1].event_id = 1 /\ rounds[1].is_deleted
    /\ events[1].is_deleted /\ events[1].name = "Gala"
    /\ resp = Response(200, NoBody)


(***************************************************************************)
(* Several sessions of one user (SpecSession).                             *)
(***************************************************************************)
\* C29: the sessions of a user are independent: a successful login adds
\* exactly one session row and leaves every existing row as it was and every
\* token as valid as it was; a logout deletes the rows of the presented token
\* and no other row.
C29_SessionsIndependent ==
    [][/\ nextToken' # nextToken =>
             /\ \E s \in sessions' : s \notin sessions /\ sessions' = sessions \cup {s}
             /\ \A tok \in Issued :
                   get_user_from_token(tok)' = get_user_from_token(tok)
       /\ (nextToken' = nextToken /\ sessions' # sessions) =>
             \E tok \in loggedOut' \ loggedOut :
                 /\ \A s \in sessions : s \in sessions' <=> s.session_token # tok
                 /\ sessions' \subseteq sessions]_vars

\* ann logged in twice and logged out with her first token: her second
\* session is still there and still valid
C29_Witness ==
    /\ loggedOut = {1}
    /\ resp = Response(200, Message("Logged out successfully"))
    /\ \E s \in sessions : s.user_id = 1 /\ s.session_token = 2
    /\ get_user_from_token(2) = 1
    /\ \A s \in sessions : s.session_token # 1


(***************************************************************************)
(* The creator of a user-generated question (SpecQuestion).                *)
(***************************************************************************)
\* C30: every question created through POST /questions/user-generated has
\* created_by equal to the id of the authenticated user who made the
\* request.
C30_CreatedByIsRequester ==
    \A tok \in Presented, data \in UserQuestionBodies :
        LET o == add_user_generated_question(tok, data)
            created == o.tables.user_generated_questions
        IN  o.status = 201 =>
                /\ Len(created) = Len(user_generated_questions) + 1
                /\ created[Len(created)].created_by = get_user_from_token(tok)

\* a question was created that names no creator, though every request that
\* creates one is authenticated, and one that names ann
C30_Witness ==
    /\ resp.status = 201
    /\ Len(user_generated_questions) = 2
    /\ user_generated_questions[1].created_by = NULL
    /\ user_generated_questions[2].created_by = 1

====
